---- MODULE Spec2Model ----
(***************************************************************************)
(* ProcessLab: the BPMN document patch engine, the linter and the version  *)
(* chain (create version, edit, activate, restore) as state machines.      *)
(*                                                                         *)
(* Spec      the request handlers, each one atomic (sequential requests).  *)
(* SpecConc  two create-version requests running step by step, each on its *)
(*           own database session (handlers are sync functions run on the  *)
(*           server's thread pool over one SQLite file).                   *)
(***************************************************************************)
EXTENDS Integers, Naturals, Sequences, FiniteSets, TLC

(* ------------------------------ bounds --------------------------------- *)

\* Most version rows the database may hold before requests stop arriving.
MaxVersions == 3

\* Most process rows: the pre-existing one plus the "Edited Process" dummies,
\* each of which is made for a version row of its own.
MaxProcs == MaxVersions - 1

\* Most calls a caller makes on the document it holds.
MaxCalls == 3

\* Most sentences of the context text a generation request carries.
MaxSentences == 2

(* ------------------------------ values --------------------------------- *)

\* Python None / SQL NULL for string-valued fields.
Null == "null"

\* SQL NULL for an id-valued column (ids of rows are 1, 2, ...).
NoId == 0

\* models.py BPMNElement.type: the Literal the schema accepts.
ElementTypes ==
    {"task", "userTask", "serviceTask", "startEvent", "endEvent",
     "exclusiveGateway", "parallelGateway"}

\* uuid.uuid4().hex[:8]: the n-th fresh value.
HexOf(n) ==
    CASE n = 1 -> "00000001"
      [] n = 2 -> "00000002"
      [] n = 3 -> "00000003"
      [] n = 4 -> "00000004"
      [] n = 5 -> "00000005"
      [] n = 6 -> "00000006"
      [] n = 7 -> "00000007"
      [] OTHER -> "00000008"

\* str.lower() on the strings that occur as names and ids.
Lower(s) ==
    CASE s = "Start" -> "start"
      [] s = "START" -> "start"
      [] s = "Review" -> "review"
      [] s = "REVIEW" -> "review"
      [] s = "Task_00000001" -> "task_00000001"
      [] s = "Task_00000002" -> "task_00000002"
      [] s = "Task_00000003" -> "task_00000003"
      [] s = "Task_00000004" -> "task_00000004"
      [] s = "Task_00000005" -> "task_00000005"
      [] s = "Task_00000006" -> "task_00000006"
      [] s = "Flow_00000001" -> "flow_00000001"
      [] s = "Flow_00000002" -> "flow_00000002"
      [] s = "Flow_00000003" -> "flow_00000003"
      [] s = "Flow_00000004" -> "flow_00000004"
      [] s = "Flow_1" -> "flow_1"
      [] s = "StartEvent_1" -> "startevent_1"
      [] s = "Task_1" -> "task_1"
      [] s = "Review Request" -> "review request"
      [] s = "REVIEW REQUEST" -> "review request"
      [] s = "Other" -> "other"
      [] s = "Fork" -> "fork"
      [] s = "Decide" -> "decide"
      [] s = "Renamed" -> "renamed"
      [] s = "T1" -> "t1"
      [] OTHER -> s

\* str.replace("bpmn:", "") on the type strings the interpreter emits.
StripBpmn(t) ==
    CASE t = "bpmn:Task" -> "Task"
      [] t = "bpmn:UserTask" -> "UserTask"
      [] t = "bpmn:StartEvent" -> "StartEvent"
      [] t = "bpmn:EndEvent" -> "EndEvent"
      [] t = "bpmn:ExclusiveGateway" -> "ExclusiveGateway"
      [] t = "bpmn:ParallelGateway" -> "ParallelGateway"
      [] t = "bpmn:ComplexGateway" -> "ComplexGateway"
      [] OTHER -> t

\* '"Task" in node_type': the substring test on the stripped type strings.
ContainsTask(t) == t \in {"Task", "UserTask"}

(* ----------------------------- documents ------------------------------- *)

\* The document of the edit tests: one start event, no flows.
DocStart ==
    [process |-> [id |-> "proc1", name |-> "Test Process"],
     lanes |-> <<>>,
     elements |-> << [id |-> "start", type |-> "startEvent", name |-> "Start",
                      laneId |-> Null] >>,
     flows |-> <<>>]

\* The same document as a raw JSON payload that leaves the optional "lanes" out.
DocStartRaw ==
    [process |-> [id |-> "proc1", name |-> "Test Process"],
     elements |-> << [id |-> "start", type |-> "startEvent", name |-> "Start",
                      laneId |-> Null] >>,
     flows |-> <<>>]

\* A document whose only element is a start event without a name.
DocScenario ==
    [process |-> [id |-> "proc1", name |-> Null],
     lanes |-> <<>>,
     elements |-> << [id |-> "s", type |-> "startEvent", name |-> Null,
                      laneId |-> Null] >>,
     flows |-> <<>>]

\* A document whose only element is the task "t1" named "Review".
DocReview ==
    [process |-> [id |-> "proc1", name |-> "Test Process"],
     lanes |-> <<>>,
     elements |-> << [id |-> "t1", type |-> "task", name |-> "Review",
                      laneId |-> Null] >>,
     flows |-> <<>>]

\* The example document of the schema: one lane, two elements in it, one flow.
DocExample ==
    [process |-> [id |-> "Process_1", name |-> "Sample Process"],
     lanes |-> << [id |-> "Lane_1", name |-> "Sales Department",
                   childElementIds |-> << "Task_1", "Task_2" >>] >>,
     elements |-> << [id |-> "StartEvent_1", type |-> "startEvent", name |-> "Start",
                      laneId |-> "Lane_1"],
                     [id |-> "Task_1", type |-> "userTask", name |-> "Review Request",
                      laneId |-> "Lane_1"] >>,
     flows |-> << [id |-> "Flow_1", source |-> "StartEvent_1", target |-> "Task_1",
                   name |-> Null] >>]

\* The JSON object {}: what a create-version request may carry as bpmn_json.
EmptyDoc == [empty |-> TRUE]

IsEmptyDoc(d) == "empty" \in DOMAIN d

\* BPMNJSON(**d): the payload validates as a document.
IsValidDoc(d) ==
    /\ ~IsEmptyDoc(d)
    /\ \A i \in 1..Len(d.elements) : d.elements[i].type \in ElementTypes

\* BPMNJSON(**d).model_dump(): the optional "lanes" gets its default, [].
ModelDump(d) ==
    [k \in DOMAIN d \cup {"lanes"} |->
        IF k \in DOMAIN d THEN d[k] ELSE <<>>]

ElementIds(d) == {d.elements[i].id : i \in 1..Len(d.elements)}

FlowIds(d) == {d.flows[i].id : i \in 1..Len(d.flows)}

LaneIds(d) == {d.lanes[i].id : i \in 1..Len(d.lanes)}

(* ------------------------------- etag ---------------------------------- *)

\* compute_etag: sha256 over json.dumps(payload or {}, sort_keys=True, ...).
\* The digest is kept as the tagged canonical form (sha256 taken as injective).
ComputeEtag(payload) == [sha256 |-> payload]

\* A NULL etag column, and a request without If-Match / ifMatch.
NoEtag == [absent |-> TRUE]

(* --------------------------- patch service ----------------------------- *)

\* dict.get(k): the argument, or None when the patch does not carry it.
Arg(args, k) == IF k \in DOMAIN args THEN args[k] ELSE Null

\* Python truthiness of an optional string: None and "" are falsy.
Truthy(s) == s # Null /\ s # ""

\* The outcome of a patch: the document on success, the exception otherwise.
PatchOk(d) == [ok |-> TRUE, bpmn |-> d, err |-> Null]

PatchErr(d, e) == [ok |-> FALSE, bpmn |-> d, err |-> e]

\* The first uuid suffix that makes prefix_suffix an id no element or flow has
\* (uuid4 values are interchangeable, so the least unused one stands for all).
FreshId(d, prefix) ==
    LET used == ElementIds(d) \cup FlowIds(d)
        free == {n \in 1..6 : (prefix \o "_" \o HexOf(n)) \notin used}
        n == CHOOSE k \in free : \A j \in free : k <= j
    IN prefix \o "_" \o HexOf(n)

\* _add_node that also wires the new node to the element before it.
AddNodeConnected(d, args) ==
    LET stripped == StripBpmn(IF "type" \in DOMAIN args THEN args.type ELSE "task")
        node_id == IF Truthy(Arg(args, "id")) THEN args.id ELSE FreshId(d, stripped)
        node_type == IF ContainsTask(stripped) THEN "task" ELSE stripped
        node == [id |-> node_id, type |-> node_type,
                 name |-> IF "name" \in DOMAIN args THEN args.name ELSE "",
                 laneId |-> Arg(args, "laneId")]
        edge == [id |-> FreshId(d, "Flow"),
                 source |-> d.elements[Len(d.elements)].id, target |-> node_id,
                 name |-> ""]
    IN IF node_type \notin ElementTypes
       THEN PatchErr(d, "validation error for BPMNElement")
       ELSE PatchOk([d EXCEPT !.elements = Append(@, node),
                              !.flows = IF d.elements = <<>> THEN @ ELSE Append(@, edge)])

\* BpmnPatchService._add_node
AddNode(d, args) ==
    LET stripped == StripBpmn(IF "type" \in DOMAIN args THEN args.type ELSE "task")
        node_id == IF Truthy(Arg(args, "id")) THEN args.id ELSE FreshId(d, stripped)
        node_type == IF ContainsTask(stripped)
                        /\ stripped \notin {"userTask", "serviceTask", "scriptTask",
                                            "businessRuleTask"}
                     THEN "task" ELSE stripped
        node == [id |-> node_id, type |-> node_type,
                 name |-> IF "name" \in DOMAIN args THEN args.name ELSE "",
                 laneId |-> Arg(args, "laneId")]
    IN IF node_type \notin ElementTypes
       THEN PatchErr(d, "validation error for BPMNElement")
       ELSE PatchOk([d EXCEPT !.elements = Append(@, node)])

\* BpmnPatchService._connect
Connect(d, args) ==
    LET source_id == Arg(args, "sourceId")
        target_id == Arg(args, "targetId")
    IN IF ~Truthy(source_id) \/ ~Truthy(target_id)
       THEN PatchErr(d, "Connect requires sourceId and targetId")
       ELSE PatchOk([d EXCEPT !.flows =
                Append(@, [id |-> FreshId(d, "Flow"), source |-> source_id,
                           target |-> target_id,
                           name |-> IF "name" \in DOMAIN args THEN args.name ELSE ""])])

\* _remove without its cascade: only the node, or the edge, with that id goes.
RemoveNoCascade(d, args) ==
    LET target_id == Arg(args, "id")
        KeepNode(n) == n.id # target_id
        NotEdge(e) == e.id # target_id
    IN IF ~Truthy(target_id)
       THEN PatchErr(d, "Remove requires id")
       ELSE PatchOk([d EXCEPT !.elements = SelectSeq(@, KeepNode),
                              !.flows = SelectSeq(@, NotEdge)])

\* BpmnPatchService._remove
Remove(d, args) ==
    LET target_id == Arg(args, "id")
        KeepNode(n) == n.id # target_id
        KeepEdge(e) == e.source # target_id /\ e.target # target_id
        NotEdge(e) == e.id # target_id
    IN IF ~Truthy(target_id)
       THEN PatchErr(d, "Remove requires id")
       ELSE PatchOk([d EXCEPT !.elements = SelectSeq(@, KeepNode),
                              !.flows = SelectSeq(SelectSeq(@, KeepEdge), NotEdge)])

\* The first index of s whose id is target (0 when there is none).
IndexOfId(s, target) ==
    IF \E i \in 1..Len(s) : s[i].id = target
    THEN CHOOSE i \in 1..Len(s) : s[i].id = target /\ \A j \in 1..(i - 1) : s[j].id # target
    ELSE 0

\* BpmnPatchService._rename
Rename(d, args) ==
    LET target_id == Arg(args, "id")
        new_name == Arg(args, "name")
        ni == IndexOfId(d.elements, target_id)
        ei == IndexOfId(d.flows, target_id)
    IN IF ~Truthy(target_id) \/ new_name = Null
       THEN PatchErr(d, "Rename requires id and name")
       ELSE IF ni # 0 THEN PatchOk([d EXCEPT !.elements[ni].name = new_name])
       ELSE IF ei # 0 THEN PatchOk([d EXCEPT !.flows[ei].name = new_name])
       ELSE PatchOk(d)

\* _convert putting a new BPMNElement(id, type) in the node's place: the name
\* and the lane of the node are lost.
ConvertByReplacing(d, args) ==
    LET target_id == Arg(args, "id")
        new_type == StripBpmn(Arg(args, "type"))
        ni == IndexOfId(d.elements, target_id)
    IN IF ~Truthy(target_id) \/ ~Truthy(new_type)
       THEN PatchErr(d, "Convert requires id and type")
       ELSE IF ni # 0
       THEN PatchOk([d EXCEPT !.elements[ni] =
                [id |-> target_id, type |-> new_type, name |-> Null, laneId |-> Null]])
       ELSE PatchOk(d)

\* BpmnPatchService._convert (the assignment to node.type is not validated)
Convert(d, args) ==
    LET target_id == Arg(args, "id")
        new_type == StripBpmn(Arg(args, "type"))
        ni == IndexOfId(d.elements, target_id)
    IN IF ~Truthy(target_id) \/ ~Truthy(new_type)
       THEN PatchErr(d, "Convert requires id and type")
       ELSE IF ni # 0 THEN PatchOk([d EXCEPT !.elements[ni].type = new_type])
       ELSE PatchOk(d)

\* BpmnPatchService._move_to_lane
MoveToLane(d, args) ==
    LET target_id == Arg(args, "id")
        lane_id == Arg(args, "laneId")
        ni == IndexOfId(d.elements, target_id)
    IN IF ~Truthy(target_id) \/ ~Truthy(lane_id)
       THEN PatchErr(d, "Move to lane requires id and laneId")
       ELSE IF ni # 0 THEN PatchOk([d EXCEPT !.elements[ni].laneId = lane_id])
       ELSE PatchOk(d)

\* BpmnPatchService._set_property
SetProperty(d, args) == PatchOk(d)

\* BpmnPatchService.apply_patch
ApplyPatch(d, patch) ==
    CASE patch.op = "add_node" -> AddNode(d, patch.args)
      [] patch.op = "connect" -> Connect(d, patch.args)
      [] patch.op = "remove" -> Remove(d, patch.args)
      [] patch.op = "rename" -> Rename(d, patch.args)
      [] patch.op = "convert" -> Convert(d, patch.args)
      [] patch.op = "move_to_lane" -> MoveToLane(d, patch.args)
      [] patch.op = "set_property" -> SetProperty(d, patch.args)
      [] OTHER -> PatchErr(d, "Unknown operation: " \o patch.op)

(* ------------------------------- linter -------------------------------- *)

\* node.name or node.id
Label(n) == IF Truthy(n.name) THEN n.name ELSE n.id

\* How many flows satisfy Test.
CountFlows(d, Test(_)) == Len(SelectSeq(d.flows, Test))

\* Rule 4 without its dead-end half: only missing incoming flows are reported
\* for a node that is neither a start nor an end event.
ConnectivityErrorsNoDeadEnd(d, n) ==
    LET Into(e) == e.target = n.id
        OutOf(e) == e.source = n.id
        t == StripBpmn(n.type)
    IN IF t = "startEvent"
       THEN IF CountFlows(d, OutOf) = 0
            THEN << "Start Event '" \o Label(n) \o "' is not connected to anything" >>
            ELSE <<>>
       ELSE IF t = "endEvent"
       THEN IF CountFlows(d, Into) = 0
            THEN << "End Event '" \o Label(n) \o "' is unreachable" >>
            ELSE <<>>
       ELSE IF CountFlows(d, Into) = 0
            THEN << "Node '" \o Label(n) \o "' is unreachable (no incoming flows)" >>
            ELSE <<>>

\* Rule 4 of BpmnLinter.lint for one element, in the code's order.
ConnectivityErrors(d, n) ==
    LET Into(e) == e.target = n.id
        OutOf(e) == e.source = n.id
        incoming == CountFlows(d, Into)
        outgoing == CountFlows(d, OutOf)
        t == StripBpmn(n.type)
    IN IF t = "startEvent"
       THEN IF outgoing = 0
            THEN << "Start Event '" \o Label(n) \o "' is not connected to anything" >>
            ELSE <<>>
       ELSE IF t = "endEvent"
       THEN IF incoming = 0
            THEN << "End Event '" \o Label(n) \o "' is unreachable" >>
            ELSE <<>>
       ELSE (IF incoming = 0
             THEN << "Node '" \o Label(n) \o "' is unreachable (no incoming flows)" >>
             ELSE <<>>)
            \o
            (IF outgoing = 0
             THEN << "Node '" \o Label(n) \o "' is a dead end (no outgoing flows)" >>
             ELSE <<>>)

\* Rule 3 of BpmnLinter.lint for one element.
GatewayErrors(d, n) ==
    LET OutOf(e) == e.source = n.id
    IN IF n.type \in {"exclusiveGateway", "bpmn:ExclusiveGateway"}
          /\ CountFlows(d, OutOf) < 2
       THEN << "Exclusive Gateway '" \o Label(n) \o "' must have at least 2 outgoing paths" >>
       ELSE <<>>

RECURSIVE GatewayPass(_, _)
\* The loop over exclusive gateways (rule 3), from element i on.
GatewayPass(d, i) ==
    IF i > Len(d.elements) THEN <<>>
    ELSE GatewayErrors(d, d.elements[i]) \o GatewayPass(d, i + 1)

\* Rule 4 stopping at the first offending node: the findings of one element
\* stand for all.
ConnectivityPassFirstOnly(d, i) ==
    LET offenders == {j \in i..Len(d.elements) : ConnectivityErrors(d, d.elements[j]) # <<>>}
    IN IF offenders = {} THEN <<>>
       ELSE ConnectivityErrors(d,
                d.elements[CHOOSE j \in offenders : \A k \in offenders : j <= k])

RECURSIVE ConnectivityPass(_, _)
\* The loop over all nodes (rule 4), from element i on.
ConnectivityPass(d, i) ==
    IF i > Len(d.elements) THEN <<>>
    ELSE ConnectivityErrors(d, d.elements[i]) \o ConnectivityPass(d, i + 1)

\* BpmnLinter.lint
Lint(d) ==
    LET types == {d.elements[i].type : i \in 1..Len(d.elements)}
    IN (IF types \cap {"startEvent", "bpmn:StartEvent"} = {}
        THEN << "Process must have at least one Start Event" >> ELSE <<>>)
       \o (IF types \cap {"endEvent", "bpmn:EndEvent"} = {}
           THEN << "Process must have at least one End Event" >> ELSE <<>>)
       \o (IF types \cap {"complexGateway", "bpmn:ComplexGateway"} # {}
           THEN << "Complex Gateways are not supported" >> ELSE <<>>)
       \o GatewayPass(d, 1)
       \o ConnectivityPass(d, 1)
(* -------------------------------- codec -------------------------------- *)

\* The outcome of an export: the XML tree on success, the exception otherwise.
XmlOk(x) == [ok |-> TRUE, xml |-> x, err |-> Null]

XmlErr(e) == [ok |-> FALSE, xml |-> [none |-> TRUE], err |-> e]

\* What ET.tostring refuses to write: an attribute whose value is None (the
\* name of the process or of an element, the id of a flow).
HasNoneAttribute(d) ==
    \/ d.process.name = Null
    \/ \E i \in 1..Len(d.elements) : d.elements[i].name = Null
    \/ \E i \in 1..Len(d.flows) : d.flows[i].id = Null

\* to_bpmn_xml on the dict of a document (model_dump): the process, one node
\* per element whose tag is the element's type, one sequenceFlow per flow with
\* id, sourceRef and targetRef. The diagram section carries no part of the
\* document that the import reads.
ToBpmnXml(d) ==
    IF HasNoneAttribute(d)
    THEN XmlErr("cannot serialize None (type NoneType)")
    ELSE XmlOk(
        [process |-> [id |-> d.process.id, name |-> d.process.name],
         lanes |-> [i \in 1..Len(d.lanes) |->
                       [id |-> d.lanes[i].id, name |-> d.lanes[i].name,
                        flowNodeRefs |-> d.lanes[i].childElementIds]],
         nodes |-> [i \in 1..Len(d.elements) |->
                       [tag |-> d.elements[i].type, id |-> d.elements[i].id,
                        name |-> d.elements[i].name]],
         sequenceFlows |-> [i \in 1..Len(d.flows) |->
                               [id |-> d.flows[i].id, sourceRef |-> d.flows[i].source,
                                targetRef |-> d.flows[i].target]]])

\* node_types of to_bpmn_json, in the order the import walks them.
NodeTypes ==
    << "startEvent", "endEvent", "task", "userTask", "serviceTask",
       "exclusiveGateway", "parallelGateway" >>

RECURSIVE ParseNodes(_, _)
\* The loop "for tag in node_types: for elem in find_all(root, tag)", from the
\* i-th tag on: the nodes of each tag, in document order.
ParseNodes(x, i) ==
    IF i > Len(NodeTypes) THEN <<>>
    ELSE LET HasTag(n) == n.tag = NodeTypes[i]
             found == SelectSeq(x.nodes, HasTag)
         IN [k \in 1..Len(found) |->
                [id |-> found[k].id, type |-> NodeTypes[i], name |-> found[k].name,
                 laneId |-> Null]]
            \o ParseNodes(x, i + 1)

\* to_bpmn_json on the tree an export wrote. "root.find(...) or root.find(...)":
\* a process element without children is falsy, and the defaults are taken.
ToBpmnJson(x) ==
    LET childless == Len(x.lanes) = 0 /\ Len(x.nodes) = 0 /\ Len(x.sequenceFlows) = 0
    IN [process |-> IF childless
                    THEN [id |-> "Process_1", name |-> "Generated Process"]
                    ELSE x.process,
        lanes |-> <<>>,
        elements |-> ParseNodes(x, 1),
        flows |-> [i \in 1..Len(x.sequenceFlows) |->
                      [id |-> x.sequenceFlows[i].id,
                       source |-> x.sequenceFlows[i].sourceRef,
                       target |-> x.sequenceFlows[i].targetRef,
                       name |-> Null]]]

(* ----------------------------- interpreter ----------------------------- *)

CmdAddTask == "Add a task called 'Review'"

CmdConnect == "Connect 'Start' to 'Review'"

CmdRemoveGhost == "remove 'ghost'"

CmdAddStart == "add start event"

CmdGibberish == "gibberish"

CmdBlank == "   "

\* The commands the requests of this model carry.
Commands == {CmdAddTask, CmdConnect, CmdRemoveGhost, CmdAddStart, CmdGibberish, CmdBlank}

\* "not request.command or not request.command.strip()"
IsBlank(c) == c \in {"", CmdBlank}

\* CommandInterpreter.interpret of api/v1/edit.py on Commands: the command is
\* lower-cased, then the first rule that matches decides.
InterpretV1(c) ==
    CASE c = CmdAddTask ->
            [op |-> "add_node", args |-> [type |-> "bpmn:Task", name |-> "review"]]
      [] c = CmdAddStart ->
            [op |-> "add_node", args |-> [type |-> "bpmn:StartEvent", name |-> "Start"]]
      [] c = CmdConnect ->
            [op |-> "connect_by_name",
             args |-> [sourceName |-> "start", targetName |-> "review"]]
      [] c = CmdRemoveGhost ->
            [op |-> "remove_by_name", args |-> [name |-> "ghost"]]
      [] OTHER -> [op |-> "noop", args |-> [none |-> Null]]

\* CommandInterpreter.interpret of api/v1/endpoints/edit.py: the same rules 1-6.
InterpretEndpoint(c) == InterpretV1(c)

\* name_to_id.get(key): names first, then every id overwrites its own key.
NameToId(d, key) ==
    LET byId == {i \in 1..Len(d.elements) : Lower(d.elements[i].id) = key}
        byName == {i \in 1..Len(d.elements) :
                      Truthy(d.elements[i].name) /\ Lower(d.elements[i].name) = key}
        Last(S) == CHOOSE i \in S : \A j \in S : j <= i
    IN IF byId # {} THEN d.elements[Last(byId)].id
       ELSE IF byName # {} THEN d.elements[Last(byName)].id
       ELSE Null

\* resolve_names_to_ids of api/v1/edit.py: the id-addressed patch, or the 400.
ResolveNamesToIds(d, patch) ==
    LET args == patch.args
        Key(k) == Lower(IF k \in DOMAIN args THEN args[k] ELSE "")
        Fail(msg) == [ok |-> FALSE, patch |-> patch, err |-> msg]
        Done(pt) == [ok |-> TRUE, patch |-> pt, err |-> Null]
    IN CASE patch.op = "connect_by_name" ->
              LET s_id == NameToId(d, Key("sourceName"))
                  t_id == NameToId(d, Key("targetName"))
              IN IF Truthy(s_id) /\ Truthy(t_id)
                 THEN Done([op |-> "connect",
                            args |-> [sourceId |-> s_id, targetId |-> t_id]])
                 ELSE Fail("Could not find nodes for connection: "
                           \o Key("sourceName") \o " -> " \o Key("targetName"))
         [] patch.op = "remove_by_name" ->
              LET t_id == NameToId(d, Key("name"))
              IN IF Truthy(t_id)
                 THEN Done([op |-> "remove", args |-> [id |-> t_id]])
                 ELSE Fail("Could not find node to remove: " \o Key("name"))
         [] patch.op = "rename_by_name" ->
              LET t_id == NameToId(d, Key("oldName"))
              IN IF Truthy(t_id)
                 THEN Done([op |-> "rename",
                            args |-> [id |-> t_id, name |-> Arg(args, "newName")]])
                 ELSE Fail("Could not find node to rename: " \o Key("oldName"))
         [] patch.op = "convert_by_name" ->
              LET t_id == NameToId(d, Key("name"))
              IN IF Truthy(t_id)
                 THEN Done([op |-> "convert",
                            args |-> [id |-> t_id, type |-> Arg(args, "type")]])
                 ELSE Fail("Could not find node to convert: " \o Key("name"))
         [] patch.op = "set_property_by_name" ->
              LET t_id == NameToId(d, Key("name"))
              IN IF Truthy(t_id)
                 THEN Done([op |-> "set_property",
                            args |-> [id |-> t_id, key |-> Arg(args, "key"),
                                      value |-> Arg(args, "value")]])
                 ELSE Fail("Could not find node to set property: " \o Key("name"))
         [] OTHER -> Done(patch)
(* ------------------------------ database ------------------------------- *)

VARIABLES
    versions,   \* table model_versions: the rows, in insertion order (id = index)
    processes,  \* table processes: the rows, in insertion order (id = index)
    resp,       \* the response to the request handled last
    pc,         \* SpecConc: where each in-flight create-version request stands
    loc,        \* SpecConc: what each in-flight request has read and decided
    current_bpmn,  \* SpecPatch: the document a caller of the patch engine holds
    patch_result   \* SpecPatch: what the call made last on it came to

vars == <<versions, processes, resp, pc, loc, current_bpmn, patch_result>>

\* The tables and the responses, which calls on a document leave alone.
dbvars == <<versions, processes, resp, pc, loc>>

\* The document in a caller's hands, which the request handlers leave alone.
docvars == <<current_bpmn, patch_result>>

\* LOCAL_USER_ID, the user every repository query filters on.
LocalUser == "local-user"

\* The payloads a create-version request may carry as bpmn_json.
CreateDocs == {DocStartRaw, EmptyDoc}

\* The documents an edit request may carry as bpmn.
EditDocs == {DocStart}

\* "no row": what .first() returns when nothing matches.
NoRow == [id |-> NoId]

ProcessIds(ps) == 1..Len(ps)

VersionIds(vs) == 1..Len(vs)

\* Process ids a request may name: every row, and one id that has no row.
ProcessRefs == 1..(Len(processes) + 1)

\* Version ids a request may name: every row, and one id that has no row.
VersionRefs == 1..(Len(versions) + 1)

VersionsOf(vs, p) == {i \in VersionIds(vs) : vs[i].process_id = p}

\* max(existing.versionNumber), 0 when the process has no version.
MaxNumber(vs, p) ==
    IF VersionsOf(vs, p) = {} THEN 0
    ELSE LET nums == {vs[i].version_number : i \in VersionsOf(vs, p)}
         IN CHOOSE n \in nums : \A m \in nums : m <= n

\* order_by(version_number.desc()).first(): a row with the highest number (any
\* of them when several rows share it), or no row.
LastVersions(vs, p) ==
    IF VersionsOf(vs, p) = {} THEN {NoRow}
    ELSE {vs[i] : i \in {j \in VersionsOf(vs, p) : vs[j].version_number = MaxNumber(vs, p)}}

\* query(ModelVersion).filter(id == v).first()
FindVersion(vs, v) == IF v \in VersionIds(vs) THEN vs[v] ELSE NoRow

\* query(ModelVersion).filter(id == v, process_id == p).first()
FindVersionOf(vs, v, p) ==
    IF v \in VersionIds(vs) /\ vs[v].process_id = p THEN vs[v] ELSE NoRow

\* A new model_versions row (db.add + commit): the id is the next fresh one.
NewRow(vs, p, number, parent, doc, etag, method, active) ==
    [id |-> Len(vs) + 1, process_id |-> p, version_number |-> number,
     parent_version_id |-> parent, bpmn_json |-> doc, etag |-> etag,
     generation_method |-> method, is_active |-> active]

\* A save that takes the update branch of _to_orm: the row is written over the
\* newest stored one instead of being added.
SaveOverNewest(vs, row) ==
    IF vs = <<>> THEN Append(vs, row)
    ELSE [vs EXCEPT ![Len(vs)] = [row EXCEPT !.id = Len(vs)]]

\* db.add(row); db.commit()
InsertVersion(vs, row) == Append(vs, row)

\* process.current_version_id = v; db.commit()
SetCurrent(ps, p, v) == [ps EXCEPT ![p].current_version_id = v]

\* A response: the HTTP status and what the body carries.
Response(op, status, p, v, changes, yours, current) ==
    [op |-> op, status |-> status, version_id |-> v,
     changes |-> changes, your_etag |-> yours, current_etag |-> current]

Plain(op, status, p, v) == Response(op, status, p, v, <<>>, NoEtag, NoEtag)

\* No call has been made on the document yet.
NoCall == [op |-> "none", ok |-> TRUE, calls |-> 0]

Init ==
    /\ versions = <<>>
    /\ processes = << [current_version_id |-> NoId, user_id |-> LocalUser] >>
    /\ resp = Plain("none", 200, NoId, NoId)
    /\ pc = [w \in {1, 2} |-> "idle"]
    /\ loc = [w \in {1, 2} |-> [none |-> TRUE]]
    /\ current_bpmn = DocStart
    /\ patch_result = NoCall

(* ------------------- version endpoints (processes.py) ------------------ *)

\* What a handler leaves behind: the two tables as committed, and its response.
Out(vs, ps, r) == [vs |-> vs, ps |-> ps, resp |-> r]

\* The If-Match test with the comparison turned around: a conflict when the
\* etags are equal.
IsConflictWhenEqual(if_match, last) ==
    /\ if_match # NoEtag
    /\ last.id # NoId
    /\ last.etag # NoEtag
    /\ if_match = last.etag

\* The If-Match test of create_version against the row read as latest.
IsConflict(if_match, last) ==
    /\ if_match # NoEtag
    /\ last.id # NoId
    /\ last.etag # NoEtag
    /\ if_match # last.etag

\* An activation rule that forgets the active mark of the request.
ShouldActivateFirstOnly(is_active, number) == number = 1

\* "if version_data.is_active or next_version_number == 1"
ShouldActivate(is_active, number) == is_active \/ number = 1

\* POST /processes/{p}/versions: the outcomes the handler can have (one for
\* each row the first query may return as the latest).
create_version(vs, ps, p, doc, if_match, parent, is_active) ==
    IF p \notin ProcessIds(ps)
    THEN {Out(vs, ps, Plain("create_version", 404, p, NoId))}
    ELSE {LET number == IF last.id # NoId THEN last.version_number + 1 ELSE 1
              row == NewRow(vs, p, number, parent, doc, ComputeEtag(doc),
                            "manual_edit", FALSE)
          IN IF IsConflict(if_match, last)
             THEN Out(vs, ps, Response("create_version", 409, p, NoId, <<>>,
                                       if_match, last.etag))
             ELSE IF parent # NoId /\ FindVersionOf(vs, parent, p).id = NoId
             THEN Out(vs, ps, Plain("create_version", 404, p, NoId))
             ELSE IF ShouldActivate(is_active, number)
             THEN Out(InsertVersion(vs, [row EXCEPT !.is_active = TRUE]),
                      SetCurrent(ps, p, row.id),
                      Plain("create_version", 200, p, row.id))
             ELSE Out(InsertVersion(vs, row), ps,
                      Plain("create_version", 200, p, row.id))
          : last \in LastVersions(vs, p)}

\* An activation that looks the version up by id alone, whichever process
\* owns it.
ActivateAnyVersion(vs, ps, p, v) ==
    IF p \notin ProcessIds(ps) \/ FindVersion(vs, v).id = NoId
    THEN Out(vs, ps, Plain("activate", 404, p, NoId))
    ELSE Out(vs, SetCurrent(ps, p, v), Plain("activate", 200, p, v))

\* PUT /processes/{p}/versions/{v}/activate
activate_version(vs, ps, p, v) ==
    IF p \notin ProcessIds(ps) \/ FindVersionOf(vs, v, p).id = NoId
    THEN Out(vs, ps, Plain("activate", 404, p, NoId))
    ELSE Out(vs, SetCurrent(ps, p, v), Plain("activate", 200, p, v))

\* A restore that names the version it copies as the parent.
RestoreParentIsSource(ps, p, source) == source.id

\* parent_version_id of a restored version: process.current_version_id
RestoreParent(ps, p, source) == ps[p].current_version_id

\* POST /processes/{p}/versions/{v}/restore
restore_version(vs, ps, p, v) ==
    IF p \notin ProcessIds(ps) \/ FindVersionOf(vs, v, p).id = NoId
    THEN {Out(vs, ps, Plain("restore", 404, p, NoId))}
    ELSE {LET source == vs[v]
              number == IF last.id # NoId THEN last.version_number + 1 ELSE 1
              row == NewRow(vs, p, number, RestoreParent(ps, p, source),
                            source.bpmn_json, ComputeEtag(source.bpmn_json),
                            "restored", TRUE)
          IN Out(InsertVersion(vs, row), SetCurrent(ps, p, row.id),
                 Plain("restore", 200, p, row.id))
          : last \in LastVersions(vs, p)}

\* The handler's commits and its response become the state.
Commit(o) ==
    /\ versions' = o.vs
    /\ processes' = o.ps
    /\ resp' = o.resp
    /\ UNCHANGED <<pc, loc>>
    /\ UNCHANGED docvars

\* Rows are added while the tables are within the bounds.
WithinBounds(o) == Len(o.vs) <= MaxVersions /\ Len(o.ps) <= MaxProcs

CreateVersion(p, doc, if_match, parent, is_active) ==
    /\ Len(versions) < MaxVersions
    /\ \E o \in create_version(versions, processes, p, doc, if_match, parent,
                               is_active) : Commit(o)

ActivateVersion(p, v) == Commit(activate_version(versions, processes, p, v))

RestoreVersion(p, v) ==
    /\ Len(versions) < MaxVersions
    /\ \E o \in restore_version(versions, processes, p, v) : Commit(o)

(* ----------------------- use cases (application/) ---------------------- *)

\* SQLAlchemyProcessRepository.find_by_id: the row, if the local user owns it.
RepoFindProcess(ps, p) ==
    IF p \in ProcessIds(ps) /\ ps[p].user_id = LocalUser THEN p ELSE NoId

\* What a use case hands back: the tables as it left them, and the new row's id
\* or the ResourceNotFoundError (404).
UseCaseOk(vs, ps, v) == [ok |-> TRUE, vs |-> vs, ps |-> ps, id |-> v]

UseCaseNotFound(vs, ps) == [ok |-> FALSE, vs |-> vs, ps |-> ps, id |-> NoId]

\* CreateVersionUseCase.execute
CreateVersionExecute(vs, ps, cmd) ==
    LET number == MaxNumber(vs, cmd.process_id) + 1
        parent == FindVersion(vs, cmd.parent_version_id)
        active == ShouldActivate(cmd.is_active, number)
        row == NewRow(vs, cmd.process_id, number, cmd.parent_version_id, cmd.bpmn_json,
                      ComputeEtag(cmd.bpmn_json), cmd.generation_method, active)
    IN IF RepoFindProcess(ps, cmd.process_id) = NoId
       THEN UseCaseNotFound(vs, ps)
       ELSE IF cmd.parent_version_id # NoId
               /\ (parent.id = NoId \/ parent.process_id # cmd.process_id)
       THEN UseCaseNotFound(vs, ps)
       ELSE UseCaseOk(InsertVersion(vs, row),
                      IF active THEN SetCurrent(ps, cmd.process_id, row.id) ELSE ps,
                      row.id)

\* RestoreVersionUseCase.execute
RestoreVersionExecute(vs, ps, p, v) ==
    LET source == FindVersion(vs, v)
        out == CreateVersionExecute(vs, ps,
                  [process_id |-> p, bpmn_json |-> source.bpmn_json,
                   generation_method |-> "restored",
                   parent_version_id |-> RestoreParent(ps, p, source),
                   is_active |-> TRUE])
    IN IF RepoFindProcess(ps, p) = NoId \/ source.id = NoId \/ source.process_id # p
       THEN Out(vs, ps, Plain("restore_uc", 404, p, NoId))
       ELSE Out(out.vs, out.ps,
                Plain("restore_uc", IF out.ok THEN 200 ELSE 404, p, out.id))

\* ActivateVersionUseCase.execute
ActivateVersionExecute(vs, ps, p, v) ==
    LET version == FindVersion(vs, v)
    IN IF RepoFindProcess(ps, p) = NoId \/ version.id = NoId \/ version.process_id # p
       THEN Out(vs, ps, Plain("activate_uc", 404, p, NoId))
       ELSE Out(vs, SetCurrent(ps, p, v), Plain("activate_uc", 200, p, v))

RestoreVersionUseCase(p, v) ==
    /\ Len(versions) < MaxVersions
    /\ Commit(RestoreVersionExecute(versions, processes, p, v))

ActivateVersionUseCase(p, v) ==
    Commit(ActivateVersionExecute(versions, processes, p, v))

(* ------------------------------- editing ------------------------------- *)

\* A request field that was not sent (bpmn, bpmn_xml).
Absent == [absent |-> TRUE]

\* An XML body the parser rejects.
MalformedXml == [xml |-> "<definitions"]

\* The first steps of edit_bpmn: the document to edit, or the error status.
\*   bpmn, else bpmn_xml (to_bpmn_json), else the stored version's bpmn_json.
AcquireDocument(vs, bpmn, bpmn_xml, model_version_id) ==
    LET version == FindVersion(vs, model_version_id)
        Got(d) == [status |-> 200, bpmn |-> d]
        Failed(code) == [status |-> code, bpmn |-> Absent]
    IN IF bpmn # Absent THEN Got(bpmn)
       ELSE IF bpmn_xml # Absent THEN Failed(400)
       ELSE IF model_version_id # NoId
       THEN IF version.id # NoId /\ ~IsEmptyDoc(version.bpmn_json)
            THEN IF IsValidDoc(version.bpmn_json)
                 THEN Got(ModelDump(version.bpmn_json))
                 ELSE Failed(500)
            ELSE Failed(404)
       ELSE Failed(400)

\* Steps 1-4 of edit_bpmn in api/v1/edit.py: interpret, resolve, patch, lint.
\*   kind: "noop", "error" (the except branch, a 400) or "patched".
PatchAndLintV1(d, command) ==
    LET Result(kind, doc, op, lint) ==
            [kind |-> kind, bpmn |-> doc, op |-> op, lint_errors |-> lint]
        Linted(op, patched) == Result("patched", patched, op, Lint(patched))
        Applied(op, out) ==
            IF ~out.ok THEN Result("error", d, op, <<>>) ELSE Linted(op, out.bpmn)
        Resolved(raw, res) ==
            IF raw.op = "noop" THEN Result("noop", d, raw.op, <<>>)
            ELSE IF ~res.ok THEN Result("error", d, raw.op, <<>>)
            ELSE Applied(res.patch.op, ApplyPatch(d, res.patch))
        Interpreted(raw) == Resolved(raw, ResolveNamesToIds(d, raw))
    IN Interpreted(InterpretV1(command))

RECURSIVE Warnings(_)
\* [f"Warning: {err}" for err in lint_errors]
Warnings(errs) ==
    IF errs = <<>> THEN <<>>
    ELSE << "Warning: " \o Head(errs) >> \o Warnings(Tail(errs))

\* A changes list that leaves the linter's findings out.
ChangesListWithoutWarnings(op, lint_errors) == << "Applied: " \o op >>

\* The changes list of a successful edit.
ChangesList(op, lint_errors) == << "Applied: " \o op >> \o Warnings(lint_errors)

\* The id "unchanged" that a not-understood edit answers with when the request
\* named no version: an id no row has (the ids of rows are 1, 2, ...).
Unchanged == -1

\* An EditResponse: the response, with the document it returns as bpmn.
EditResponse(r, d) == r @@ [bpmn |-> d]

\* A not-understood response without the fallback id.
NotUnderstoodNoFallback(op, d, model_version_id) ==
    EditResponse(Response(op, 200, NoId, model_version_id,
                          << "Command not understood" >>, NoEtag, NoEtag), d)

\* The response to a command no rule matched: the current document,
\* version_id = request.model_version_id or "unchanged".
NotUnderstood(op, d, model_version_id) ==
    EditResponse(Response(op, 200, NoId,
                          IF model_version_id # NoId THEN model_version_id
                          ELSE Unchanged,
                          << "Command not understood" >>, NoEtag, NoEtag), d)

\* POST /edit/ as mounted by the router (api/v1/edit.py). The request is what
\* the handler reads of it: bpmn, bpmn_xml, model_version_id and command (it
\* never reads if_match).
edit_bpmn_v1(vs, ps, bpmn, bpmn_xml, model_version_id, command) ==
    LET prev == FindVersion(vs, model_version_id)
        needs_process == model_version_id = NoId \/ prev.id = NoId
        pid == IF needs_process THEN Len(ps) + 1 ELSE prev.process_id
        number == (IF needs_process THEN 0 ELSE prev.version_number) + 1
        Saved(work, row) ==
            Out(InsertVersion(vs, row),
                IF needs_process
                THEN Append(ps, [current_version_id |-> NoId, user_id |-> Null])
                ELSE ps,
                EditResponse(Response("edit_v1", 200, pid, row.id,
                                      ChangesList(work.op, work.lint_errors),
                                      NoEtag, NoEtag),
                             row.bpmn_json))
        Worked(got, work) ==
            IF work.kind = "noop"
            THEN Out(vs, ps, NotUnderstood("edit_v1", got.bpmn, model_version_id))
            ELSE IF work.kind = "error"
            THEN Out(vs, ps, Plain("edit_v1", 400, NoId, NoId))
            ELSE Saved(work, NewRow(vs, pid, number, NoId, ModelDump(work.bpmn),
                                    NoEtag, "edited", FALSE))
        Acquired(got) ==
            IF got.status # 200
            THEN Out(vs, ps, Plain("edit_v1", got.status, NoId, NoId))
            ELSE Worked(got, PatchAndLintV1(got.bpmn, command))
    IN IF IsBlank(command)
       THEN Out(vs, ps, Plain("edit_v1", 400, NoId, NoId))
       ELSE Acquired(AcquireDocument(vs, bpmn, bpmn_xml, model_version_id))

EditV1(bpmn, bpmn_xml, model_version_id, command) ==
    /\ Len(versions) < MaxVersions
    /\ LET o == edit_bpmn_v1(versions, processes, bpmn, bpmn_xml,
                             model_version_id, command)
       IN WithinBounds(o) /\ Commit(o)

\* The linter EditBpmnUseCase imports (app.infrastructure.services.ai.linter):
\* the violations of the patched document, in rule order.
InfraLintErrors(d) == Lint(d)

\* The patch service EditBpmnUseCase imports
\* (app.infrastructure.services.bpmn.patch): the operations of the patch applier.
InfraApplyPatch(d, patch) == ApplyPatch(d, patch)

\* EditBpmnUseCase.execute: the If-Match test, then patch and lint.
\*   The fingerprint it compares with is that of the document in the request.
\*   Raising ConflictError, a pydantic model, is a TypeError: kind "error".
EditBpmnExecute(d, patch, if_match) ==
    LET current_etag == ComputeEtag(d)
        out == InfraApplyPatch(d, patch)
        Result(kind, doc, lint) == [kind |-> kind, bpmn |-> doc, lint_errors |-> lint]
    IN IF if_match # NoEtag /\ if_match # current_etag
       THEN Result("error", d, <<>>)
       ELSE IF ~out.ok THEN Result("error", d, <<>>)
       ELSE Result("patched", ModelDump(out.bpmn), InfraLintErrors(out.bpmn))

\* POST /edit/ of api/v1/endpoints/edit.py, without an LLM key
edit_bpmn(vs, ps, bpmn, bpmn_xml, model_version_id, command, if_match) ==
    LET prev == FindVersion(vs, model_version_id)
        needs_process == model_version_id = NoId \/ prev.id = NoId
        pid == IF needs_process THEN Len(ps) + 1 ELSE prev.process_id
        ps1 == IF needs_process
               THEN Append(ps, [current_version_id |-> NoId, user_id |-> LocalUser])
               ELSE ps
        Saved(op, work, out) ==
            Out(out.vs, out.ps,
                IF out.ok
                THEN EditResponse(Response("edit", 200, pid, out.id,
                                           ChangesList(op, work.lint_errors),
                                           NoEtag, NoEtag),
                                  work.bpmn)
                ELSE Plain("edit", 404, pid, NoId))
        Worked(op, work) ==
            IF work.kind = "error"
            THEN Out(vs, ps, Plain("edit", 400, NoId, NoId))
            ELSE Saved(op, work,
                       CreateVersionExecute(vs, ps1,
                          [process_id |-> pid, bpmn_json |-> work.bpmn,
                           generation_method |-> "manual_edit",
                           parent_version_id |-> model_version_id,
                           is_active |-> FALSE]))
        Resolved(got, res) ==
            IF ~res.ok
            THEN Out(vs, ps, Plain("edit", 400, NoId, NoId))
            ELSE Worked(res.patch.op,
                        EditBpmnExecute(ModelDump(got.bpmn), res.patch, if_match))
        Interpreted(got, raw) ==
            IF raw.op = "noop"
            THEN Out(vs, ps, NotUnderstood("edit", got.bpmn, model_version_id))
            ELSE Resolved(got, ResolveNamesToIds(got.bpmn, raw))
        Acquired(got) ==
            IF got.status # 200
            THEN Out(vs, ps, Plain("edit", got.status, NoId, NoId))
            ELSE Interpreted(got, InterpretEndpoint(command))
    IN IF IsBlank(command)
       THEN Out(vs, ps, Plain("edit", 400, NoId, NoId))
       ELSE Acquired(AcquireDocument(vs, bpmn, bpmn_xml, model_version_id))

\* The provider errors LlmCommandInterpreter.interpret catches.
LlmFailures == {"AuthenticationError", "RateLimitError", "APITimeoutError", "OpenAIError"}

\* LlmInterpreterError.status_code for each of them.
LlmInterpreterError(failure) ==
    CASE failure = "AuthenticationError" -> 401
      [] failure = "RateLimitError" -> 429
      [] failure = "APITimeoutError" -> 503
      [] OTHER -> 502

\* POST /edit/ of api/v1/endpoints/edit.py with an X-OpenAI-API-Key header.
\*   llm: the provider error of the call, or the command whose patch the model
\*   answered with. On a provider error the handler raises
\*   HTTPException(status_code=llm_err.status_code) inside the try block whose
\*   "except Exception" answers every exception with a 400.
edit_bpmn_llm(vs, ps, bpmn, bpmn_xml, model_version_id, command, if_match, llm) ==
    LET got == AcquireDocument(vs, bpmn, bpmn_xml, model_version_id)
        raised == [status_code |-> LlmInterpreterError(llm)]
        caught == [status_code |-> 400, detail |-> raised]
    IN IF IsBlank(command)
       THEN Out(vs, ps, Plain("edit", 400, NoId, NoId))
       ELSE IF got.status # 200
       THEN Out(vs, ps, Plain("edit", got.status, NoId, NoId))
       ELSE IF llm \in LlmFailures
       THEN Out(vs, ps, Plain("edit", caught.status_code, NoId, NoId))
       ELSE edit_bpmn(vs, ps, bpmn, bpmn_xml, model_version_id, llm, if_match)

EditEndpoint(bpmn, bpmn_xml, model_version_id, command, if_match) ==
    /\ Len(versions) < MaxVersions
    /\ LET o == edit_bpmn(versions, processes, bpmn, bpmn_xml, model_version_id,
                          command, if_match)
       IN WithinBounds(o) /\ Commit(o)

(* --------------------------- sequential spec --------------------------- *)

\* What a request may send as If-Match: nothing, the fingerprint of a payload,
\* or the etag of a stored version.
IfMatchChoices ==
    {NoEtag, ComputeEtag(EmptyDoc)}
        \cup {versions[i].etag : i \in VersionIds(versions)}

\* The parent a create-version request may name: none, the newest row, or an
\* id that has no row.
ParentChoices == {NoId, Len(versions), Len(versions) + 1}

\* How an edit request may name its document: bpmn (with or without the id of
\* the version being edited), bpmn_xml, or the id of a stored version alone.
EditSources ==
    {<<d, Absent, v>> : d \in EditDocs, v \in {NoId} \cup VersionRefs}
        \cup {<<Absent, MalformedXml, NoId>>}
        \cup {<<Absent, Absent, v>> : v \in {NoId} \cup VersionRefs}

CreateVersionRequest ==
    \E p \in ProcessRefs, doc \in CreateDocs, if_match \in IfMatchChoices,
       parent \in ParentChoices, is_active \in BOOLEAN :
        CreateVersion(p, doc, if_match, parent, is_active)

ActivateVersionRequest ==
    \E p \in ProcessRefs, v \in VersionRefs : ActivateVersion(p, v)

RestoreVersionRequest ==
    \E p \in ProcessRefs, v \in VersionRefs : RestoreVersion(p, v)

ActivateUseCaseRequest ==
    \E p \in ProcessRefs, v \in VersionRefs : ActivateVersionUseCase(p, v)

RestoreUseCaseRequest ==
    \E p \in ProcessRefs, v \in VersionRefs : RestoreVersionUseCase(p, v)

EditV1Request ==
    \E src \in EditSources, command \in Commands :
        EditV1(src[1], src[2], src[3], command)

\* What an edit request may send as if_match: nothing, the fingerprint of the
\* document it carries, or another one.
EditIfMatch == {NoEtag, ComputeEtag(DocStart), ComputeEtag(EmptyDoc)}

EditEndpointRequest ==
    \E src \in EditSources, command \in Commands, if_match \in EditIfMatch :
        EditEndpoint(src[1], src[2], src[3], command, if_match)

\* What the provider call of a request may come to: one of the provider errors,
\* or the patch of a command (understood, or not).
LlmOutcomes == LlmFailures \cup {CmdAddTask, CmdGibberish}

EditLlmRequest ==
    \E src \in EditSources, command \in {CmdAddTask, CmdBlank}, llm \in LlmOutcomes :
        /\ Len(versions) < MaxVersions
        /\ LET o == edit_bpmn_llm(versions, processes, src[1], src[2], src[3],
                                  command, NoEtag, llm)
           IN WithinBounds(o) /\ Commit(o)

Next ==
    \/ CreateVersionRequest
    \/ ActivateVersionRequest
    \/ RestoreVersionRequest
    \/ ActivateUseCaseRequest
    \/ RestoreUseCaseRequest
    \/ EditV1Request
    \/ EditEndpointRequest
    \/ EditLlmRequest

Spec == Init /\ [][Next]_vars

(* --------------------------- concurrent spec --------------------------- *)
\* Two requests "create a version of process 1" in flight at once. Each
\* handler runs in its own thread with its own session; what it has read stays
\* in its locals (loc) while the other one commits.

Workers == {1, 2}

\* The process both requests name.
SharedProcess == 1

Idle == [none |-> TRUE]

\* A request may start while a row is left for it within the bound.
MayStart(w) ==
    /\ pc[w] = "idle"
    /\ Len(versions) + Cardinality({x \in Workers : pc[x] # "idle"}) < MaxVersions

\* create_version, first query: the row with the highest version_number.
CvRead(w) ==
    /\ MayStart(w)
    /\ UNCHANGED docvars
    /\ \E doc \in CreateDocs, if_match \in {NoEtag, ComputeEtag(DocStartRaw)},
          is_active \in BOOLEAN, last \in LastVersions(versions, SharedProcess) :
          loc' = [loc EXCEPT ![w] = [doc |-> doc, if_match |-> if_match,
                                     is_active |-> is_active, last |-> last]]
    /\ pc' = [pc EXCEPT ![w] = "cv_read"]
    /\ UNCHANGED <<versions, processes, resp>>

\* create_version: the If-Match test and the number, both from the row read
\* before, then db.add(new_version); db.commit().
CvInsert(w) ==
    /\ pc[w] = "cv_read"
    /\ UNCHANGED docvars
    /\ LET l == loc[w]
           number == IF l.last.id # NoId THEN l.last.version_number + 1 ELSE 1
           row == NewRow(versions, SharedProcess, number, NoId, l.doc,
                         ComputeEtag(l.doc), "manual_edit", FALSE)
       IN IF IsConflict(l.if_match, l.last)
          THEN /\ resp' = Response("create_version", 409, SharedProcess, NoId, <<>>,
                                   l.if_match, l.last.etag)
               /\ pc' = [pc EXCEPT ![w] = "idle"]
               /\ loc' = [loc EXCEPT ![w] = Idle]
               /\ UNCHANGED <<versions, processes>>
          ELSE /\ versions' = InsertVersion(versions, row)
               /\ UNCHANGED processes
               /\ IF ShouldActivate(l.is_active, number)
                  THEN /\ pc' = [pc EXCEPT ![w] = "cv_inserted"]
                       /\ loc' = [loc EXCEPT ![w] = l @@ [id |-> row.id]]
                       /\ UNCHANGED resp
                  ELSE /\ pc' = [pc EXCEPT ![w] = "idle"]
                       /\ loc' = [loc EXCEPT ![w] = Idle]
                       /\ resp' = Plain("create_version", 200, SharedProcess, row.id)

\* create_version: new_version.is_active = True; process.current_version_id =
\* new_version.id; db.commit()
CvActivate(w) ==
    /\ pc[w] = "cv_inserted"
    /\ UNCHANGED docvars
    /\ versions' = [versions EXCEPT ![loc[w].id].is_active = TRUE]
    /\ processes' = SetCurrent(processes, SharedProcess, loc[w].id)
    /\ resp' = Plain("create_version", 200, SharedProcess, loc[w].id)
    /\ pc' = [pc EXCEPT ![w] = "idle"]
    /\ loc' = [loc EXCEPT ![w] = Idle]

\* CreateVersionUseCase.execute: existing_versions =
\* version_repo.find_by_process_id(process_id), the read of the latest number.
UcRead(w) ==
    /\ MayStart(w)
    /\ UNCHANGED docvars
    /\ \E doc \in CreateDocs, is_active \in BOOLEAN :
          loc' = [loc EXCEPT ![w] = [doc |-> doc, is_active |-> is_active,
                                     latest |-> MaxNumber(versions, SharedProcess)]]
    /\ pc' = [pc EXCEPT ![w] = "uc_read"]
    /\ UNCHANGED <<versions, processes, resp>>

\* CreateVersionUseCase.execute: next_version_number and the entity built from
\* it (ModelVersion.create), still in the handler's memory.
UcAssign(w) ==
    /\ pc[w] = "uc_read"
    /\ UNCHANGED docvars
    /\ LET number == loc[w].latest + 1
       IN loc' = [loc EXCEPT ![w] =
                     [doc |-> loc[w].doc, number |-> number,
                      active |-> ShouldActivate(loc[w].is_active, number)]]
    /\ pc' = [pc EXCEPT ![w] = "uc_assigned"]
    /\ UNCHANGED <<versions, processes, resp>>

\* SQLAlchemyVersionRepository.save: db.add(orm); db.commit()
UcSave(w) ==
    /\ pc[w] = "uc_assigned"
    /\ UNCHANGED docvars
    /\ LET row == NewRow(versions, SharedProcess, loc[w].number, NoId, loc[w].doc,
                         ComputeEtag(loc[w].doc), "manual_edit", loc[w].active)
       IN /\ versions' = InsertVersion(versions, row)
          /\ UNCHANGED processes
          /\ IF loc[w].active
             THEN /\ pc' = [pc EXCEPT ![w] = "uc_saved"]
                  /\ loc' = [loc EXCEPT ![w] = [id |-> row.id]]
                  /\ UNCHANGED resp
             ELSE /\ pc' = [pc EXCEPT ![w] = "idle"]
                  /\ loc' = [loc EXCEPT ![w] = Idle]
                  /\ resp' = Plain("create_version_uc", 200, SharedProcess, row.id)

\* CreateVersionUseCase.execute: process.current_version_id = saved_version.id;
\* process_repo.save(process)
UcPointer(w) ==
    /\ pc[w] = "uc_saved"
    /\ UNCHANGED docvars
    /\ processes' = SetCurrent(processes, SharedProcess, loc[w].id)
    /\ resp' = Plain("create_version_uc", 200, SharedProcess, loc[w].id)
    /\ pc' = [pc EXCEPT ![w] = "idle"]
    /\ loc' = [loc EXCEPT ![w] = Idle]
    /\ UNCHANGED versions

NextConc ==
    \E w \in Workers :
        \/ CvRead(w)
        \/ CvInsert(w)
        \/ CvActivate(w)
        \/ UcRead(w)
        \/ UcAssign(w)
        \/ UcSave(w)
        \/ UcPointer(w)

SpecConc == Init /\ [][NextConc]_vars

(* ------------------------------ generation ----------------------------- *)

\* 'if "se " in lower_s or "caso " in lower_s or "?" in sentence', on the
\* sentences of this model (accents dropped).
IsGatewaySentence(sentence) ==
    sentence \in {"O sistema verifica se o valor e maior que 1000",
                  "Se for maior que 1000, o Diretor deve aprovar",
                  "Se for menor ou igual, o Gerente deve aprovar",
                  "Se aprovado, segue para fim",
                  "Caso contrario, revisa"}

RECURSIVE SynthesizeSteps(_, _, _, _)
\* The loop of synthesize_bpmn_json over the sentences from the i-th on: one
\* task or exclusive gateway per sentence, a flow from the node before it, and,
\* where the synthesis branches, a second end event behind every gateway.
SynthesizeSteps(sentences, i, last_node_id, branches) ==
    IF i > Len(sentences)
    THEN [elements |-> << [id |-> "EndEvent_" \o HexOf(i), type |-> "endEvent",
                           name |-> "Fim"] >>,
          flows |-> << [id |-> "Flow_" \o HexOf(i), source |-> last_node_id,
                        target |-> "EndEvent_" \o HexOf(i), name |-> Null] >>]
    ELSE LET gateway == IsGatewaySentence(sentences[i])
             node_id == (IF gateway THEN "Gateway_" ELSE "Node_") \o HexOf(i)
             node == [id |-> node_id,
                      type |-> IF gateway THEN "exclusiveGateway" ELSE "task",
                      name |-> IF gateway THEN sentences[i] \o "?" ELSE sentences[i]]
             flow == [id |-> "Flow_" \o HexOf(i), source |-> last_node_id,
                      target |-> node_id, name |-> Null]
             alt_end == [id |-> "EndEvent_Alt_" \o HexOf(i), type |-> "endEvent",
                         name |-> "Fim (Alternativo)"]
             alt_flow == [id |-> "Flow_Alt_" \o HexOf(i), source |-> node_id,
                          target |-> alt_end.id, name |-> "Nao"]
             rest == SynthesizeSteps(sentences, i + 1, node_id, branches)
         IN [elements |-> << node >>
                            \o (IF gateway /\ branches THEN << alt_end >> ELSE <<>>)
                            \o rest.elements,
             flows |-> << flow >>
                         \o (IF gateway /\ branches THEN << alt_flow >> ELSE <<>>)
                         \o rest.flows]

\* synthesize_bpmn_json of services/agents/synthesis.py: a start event, the
\* steps in a line, an end event; no lanes.
SynthesizeAgents(sentences) ==
    LET start == [id |-> "StartEvent_" \o HexOf(1), type |-> "startEvent",
                  name |-> "Inicio"]
        steps == SynthesizeSteps(sentences, 1, start.id, FALSE)
        all == << start >> \o steps.elements
    IN [process |-> [id |-> "Process_" \o HexOf(1), name |-> "Processo Gerado"],
        lanes |-> <<>>,
        elements |-> [k \in 1..Len(all) |->
                         [id |-> all[k].id, type |-> all[k].type, name |-> all[k].name,
                          laneId |-> Null]],
        flows |-> steps.flows]

\* synthesize_bpmn_json of infrastructure/services/ai/synthesis.py: the same
\* line, a second end event behind every gateway, and one lane for everything.
SynthesizeInfra(sentences) ==
    LET start == [id |-> "StartEvent_" \o HexOf(1), type |-> "startEvent",
                  name |-> "Inicio"]
        steps == SynthesizeSteps(sentences, 1, start.id, TRUE)
        all == << start >> \o steps.elements
        lane_id == "Lane_" \o HexOf(1)
    IN [process |-> [id |-> "Process_" \o HexOf(1), name |-> "Processo Gerado"],
        lanes |-> << [id |-> lane_id, name |-> "Processo Principal",
                      childElementIds |-> [k \in 1..Len(all) |-> all[k].id]] >>,
        elements |-> [k \in 1..Len(all) |->
                         [id |-> all[k].id, type |-> all[k].type, name |-> all[k].name,
                          laneId |-> lane_id]],
        flows |-> steps.flows]

\* lint_bpmn_json that hands the document back whatever the linter found.
LintBpmnJsonAdvisory(d) == [ok |-> IsValidDoc(d), errors |-> <<>>]

\* lint_bpmn_json: ValueError when the dict is no BPMNJSON or the linter
\* reports anything, the dict otherwise.
lint_bpmn_json(d) ==
    [ok |-> IsValidDoc(d) /\ Lint(d) = <<>>, errors |-> Lint(d)]

\* lint_bpmn_json of the linter the pipeline of infrastructure/services/ai
\* imports (app.infrastructure.services.ai.linter): blocking during generation.
InfraLintBpmnJson(d) ==
    [ok |-> IsValidDoc(d) /\ InfraLintErrors(d) = <<>>, errors |-> InfraLintErrors(d)]

\* generate_process from the synthesis on, linted being what its linter's
\* lint_bpmn_json came to: lint, convert (layout leaves the XML as it is); any
\* exception becomes the result with status "error".
generate_process(d, linted) ==
    LET x == ToBpmnXml(d)
    IN IF linted.ok /\ x.ok
       THEN [status |-> "ready", json |-> d, xml |-> x.xml]
       ELSE [status |-> "error", json |-> Absent, xml |-> Absent]

\* The text the pipeline of services/agents works on.
AgentsText ==
    << "Exemplo de processo", "O usuario inicia a tarefa",
       "Se aprovado, segue para fim", "Caso contrario, revisa" >>

\* The text of the pipeline of infrastructure/services/ai: options.context_text,
\* or the built-in one when the request carries none.
ContextText(context_text) ==
    IF context_text # <<>> THEN context_text
    ELSE << "Processo de Reembolso", "O funcionario solicita o reembolso",
            "O sistema verifica se o valor e maior que 1000",
            "Se for maior que 1000, o Diretor deve aprovar",
            "Se for menor ou igual, o Gerente deve aprovar",
            "Apos aprovacao, o pagamento e realizado" >>

\* GenerateBpmnUseCase.execute: the folder, the pipeline, then the process and
\* its first version (is_active=True) through CreateVersionUseCase.
GenerateBpmnExecute(vs, ps, folder_id, context_text) ==
    LET d == SynthesizeInfra(ContextText(context_text))
        result == generate_process(d, InfraLintBpmnJson(d))
        pid == Len(ps) + 1
        ps1 == Append(ps, [current_version_id |-> NoId, user_id |-> LocalUser])
        out == CreateVersionExecute(vs, ps1,
                  [process_id |-> pid, bpmn_json |-> result.json,
                   generation_method |-> "ai_generated",
                   parent_version_id |-> NoId,
                   is_active |-> TRUE])
    IN IF folder_id # Null THEN UseCaseNotFound(vs, ps)
       ELSE IF result.status = "error" THEN UseCaseNotFound(vs, ps)
       ELSE out

\* POST /generate/ of api/v1/endpoints/generate.py: every exception of the use
\* case is answered with a 500.
generate_bpmn(vs, ps, folder_id, context_text) ==
    LET out == GenerateBpmnExecute(vs, ps, folder_id, context_text)
    IN IF out.ok
       THEN Out(out.vs, out.ps, Plain("generate", 200, Len(out.ps), out.id))
       ELSE Out(out.vs, out.ps, Plain("generate", 500, NoId, NoId))

\* POST /generate/ as mounted by the router (api/v1/generate.py): the handler
\* calls generate_process(context=..., process_name=..., options=...), which
\* the function (artifact_ids, options) refuses with a TypeError before the
\* pipeline runs; nothing after the call is reached.
generate_bpmn_v1(vs, ps) == Out(vs, ps, Plain("generate_v1", 500, NoId, NoId))

\* The context texts a request may carry: up to MaxSentences sentences.
ContextTexts ==
    UNION {[1..n -> {"Revisar o pedido", "Se aprovado, segue para fim"}] :
              n \in 0..MaxSentences}

\* The folder a request may name: none, or one that is not stored.
FolderRefs == {Null, "ghostfolder"}

GenerateRequest ==
    \E folder_id \in FolderRefs, context_text \in ContextTexts :
        LET o == generate_bpmn(versions, processes, folder_id, context_text)
        IN Len(o.vs) <= MaxVersions /\ Commit(o)

GenerateV1Request ==
    LET o == generate_bpmn_v1(versions, processes)
    IN Len(o.vs) <= MaxVersions /\ Commit(o)

\* generate_process(artifact_ids, options) of services/agents/pipeline.py,
\* called as tests/test_generate_pipeline_stub.py calls it.
GeneratePipelineCall ==
    /\ LET d == SynthesizeAgents(AgentsText)
       IN resp' = [op |-> "generate_process",
                   status |-> generate_process(d, lint_bpmn_json(d)).status]
    /\ UNCHANGED <<versions, processes, pc, loc>>
    /\ UNCHANGED docvars

NextGen ==
    \/ GenerateRequest
    \/ GenerateV1Request
    \/ GeneratePipelineCall

SpecGen == Init /\ [][NextGen]_vars

(* ------------------------------ patch spec ----------------------------- *)
\* A caller holds a document and calls the patch engine, the name resolver and
\* the codec on it, one call after another.

\* The documents a caller may start from.
SeedDocs == {DocStart, DocScenario, DocReview, DocExample}

\* The ids a patch may name: those of the elements, and one no element has.
IdRefs(d) == ElementIds(d) \cup {"ghost"}

\* The lanes a patch may name: those of the document, and one it does not have.
LaneRefs(d) == LaneIds(d) \cup {"ghostlane"}

\* The names and ids a name-addressed patch may carry.
NameRefs == {"Review", "REVIEW", "t1", "ghost"}

\* The patch no interpreter rule matched.
NoopPatch == [op |-> "noop", args |-> [none |-> Null]]

AddNodePatches ==
    {[op |-> "add_node", args |-> [type |-> "task", name |-> "Review"]],
     [op |-> "add_node", args |-> [id |-> "review", type |-> "task", name |-> "Other"]],
     [op |-> "add_node",
      args |-> [id |-> "g1", type |-> "parallelGateway", name |-> "Fork"]],
     [op |-> "add_node",
      args |-> [id |-> "x1", type |-> "exclusiveGateway", name |-> "Decide"]],
     [op |-> "add_node", args |-> [id |-> "e1", type |-> "endEvent", name |-> "End"]],
     [op |-> "add_node", args |-> [type |-> "bpmn:StartEvent", name |-> "Start"]]}

\* The id-addressed patches a caller may hand to apply_patch for document d.
IdPatches(d) ==
    AddNodePatches
        \cup {[op |-> "connect", args |-> [sourceId |-> a, targetId |-> b]] :
                 a \in IdRefs(d), b \in IdRefs(d)}
        \cup {[op |-> "remove", args |-> [id |-> a]] : a \in IdRefs(d) \cup FlowIds(d)}
        \cup {[op |-> "rename", args |-> [id |-> a, name |-> "Renamed"]] : a \in IdRefs(d)}
        \cup {[op |-> "convert", args |-> [id |-> a, type |-> "bpmn:ExclusiveGateway"]] :
                 a \in IdRefs(d)}
        \cup {[op |-> "move_to_lane", args |-> [id |-> a, laneId |-> l]] :
                 a \in IdRefs(d), l \in LaneRefs(d)}
        \cup {[op |-> "set_property",
               args |-> [id |-> a, key |-> "risk", value |-> "high"]] : a \in IdRefs(d)}
        \cup {NoopPatch}

\* The name-addressed patches an interpreter may hand to resolve_names_to_ids.
NamePatches ==
    {[op |-> "connect_by_name", args |-> [sourceName |-> a, targetName |-> b]] :
        a \in NameRefs, b \in NameRefs}
        \cup {[op |-> "remove_by_name", args |-> [name |-> a]] : a \in NameRefs}
        \cup {[op |-> "rename_by_name", args |-> [oldName |-> a, newName |-> "Renamed"]] :
                 a \in NameRefs}
        \cup {[op |-> "convert_by_name",
               args |-> [name |-> a, type |-> "bpmn:ExclusiveGateway"]] : a \in NameRefs}

\* resolve_names_to_ids without its check: the connect is built from whatever
\* each reference resolved to, or from the reference itself.
ResolveAndApplyUnchecked(d, raw) ==
    LET res == ResolveNamesToIds(d, raw)
        SomeId(k) == IF Truthy(NameToId(d, Lower(raw.args[k])))
                     THEN NameToId(d, Lower(raw.args[k])) ELSE Lower(raw.args[k])
    IN IF res.ok THEN ApplyPatch(d, res.patch)
       ELSE IF raw.op = "connect_by_name"
       THEN Connect(d, [sourceId |-> SomeId("sourceName"),
                        targetId |-> SomeId("targetName")])
       ELSE PatchErr(d, res.err)

\* Steps 2 and 3 of an edit: resolve_names_to_ids, then apply_patch on the
\* patch it returned; the HTTPException of the first ends the call.
ResolveAndApply(d, raw) ==
    LET res == ResolveNamesToIds(d, raw)
    IN IF res.ok THEN ApplyPatch(d, res.patch) ELSE PatchErr(d, res.err)

\* What a call on the document came to, and how many calls were made so far.
CallResult(op, ok) == [op |-> op, ok |-> ok, calls |-> patch_result.calls + 1]

\* A caller makes calls while it is within the bound.
MayCall == patch_result.calls < MaxCalls

InitPatch ==
    /\ versions = <<>>
    /\ processes = << [current_version_id |-> NoId, user_id |-> LocalUser] >>
    /\ resp = Plain("none", 200, NoId, NoId)
    /\ pc = [w \in {1, 2} |-> "idle"]
    /\ loc = [w \in {1, 2} |-> [none |-> TRUE]]
    /\ current_bpmn \in SeedDocs
    /\ patch_result = NoCall

\* patch_service.apply_patch(current_bpmn, patch)
ApplyPatchCall ==
    \E patch \in IdPatches(current_bpmn) :
        LET out == ApplyPatch(current_bpmn, patch)
        IN /\ MayCall
           /\ current_bpmn' = out.bpmn
           /\ patch_result' = CallResult(patch.op, out.ok)
           /\ UNCHANGED dbvars

\* patch = resolve_names_to_ids(current_bpmn, raw_patch);
\* patch_service.apply_patch(current_bpmn, patch)
ResolveAndApplyCall ==
    \E raw \in NamePatches :
        LET out == ResolveAndApply(current_bpmn, raw)
        IN /\ MayCall
           /\ current_bpmn' = out.bpmn
           /\ patch_result' = CallResult(raw.op, out.ok)
           /\ UNCHANGED dbvars

\* to_bpmn_xml(current_bpmn.model_dump()), then to_bpmn_json of the XML: the
\* caller goes on with the re-imported document, or with its own when the
\* export raised.
RoundTripCall ==
    LET x == ToBpmnXml(current_bpmn)
    IN /\ MayCall
       /\ current_bpmn' = IF x.ok THEN ToBpmnJson(x.xml) ELSE current_bpmn
       /\ patch_result' = CallResult("round_trip", x.ok)
       /\ UNCHANGED dbvars

NextPatch ==
    \/ ApplyPatchCall
    \/ ResolveAndApplyCall
    \/ RoundTripCall

SpecPatch == InitPatch /\ [][NextPatch]_vars

(* ------------------------------- claims -------------------------------- *)

\* The version numbers of process p are pairwise distinct.
DistinctNumbers(vs, p) ==
    \A i, j \in VersionsOf(vs, p) :
        i # j => vs[i].version_number # vs[j].version_number

\* C1: two concurrent create-version calls for the same process, under any
\* interleaving of their read-latest, assign-next and write steps, are never
\* assigned the same versionNumber: the rows of the shared process always
\* carry pairwise distinct version numbers.
C1_NoSharedNumber == DistinctNumbers(versions, SharedProcess)

OneVersionAdded(old, new, p) ==
    /\ Len(new) = Len(old) + 1
    /\ SubSeq(new, 1, Len(old)) = old
    /\ new[Len(new)].process_id = p

\* A create-version request names a parent the process has, or none.
ParentIsValid(p, parent) ==
    parent = NoId \/ FindVersionOf(versions, parent, p).id # NoId

LatestEtags(vs, p) == {l.etag : l \in LastVersions(vs, p)}

\* C4: an edit request that carries ifMatch is checked against the etag of the
\* latest stored version of the process being edited: when ifMatch differs
\* from it the request is rejected and adds no version, even when the
\* document the caller supplied hashes to ifMatch (both edit handlers; the
\* mounted one receives if_match and never reads it).
C4_EditChecksLatestEtag ==
    \A src \in EditSources, command \in Commands, if_match \in EditIfMatch :
        (/\ if_match # NoEtag
         /\ src[3] \in VersionIds(versions)
         /\ if_match \notin LatestEtags(versions, versions[src[3]].process_id))
        => /\ edit_bpmn(versions, processes, src[1], src[2], src[3], command,
                        if_match).vs = versions
           /\ edit_bpmn_v1(versions, processes, src[1], src[2], src[3],
                           command).vs = versions

\* C5: versions are append-only: a step of create version, edit, activate or
\* restore keeps every stored version, with its bpmn_json, etag,
\* version_number and parent_version_id as they were.
C5_Step ==
    \A i \in VersionIds(versions) :
        /\ i \in VersionIds(versions')
        /\ versions'[i].bpmn_json = versions[i].bpmn_json
        /\ versions'[i].etag = versions[i].etag
        /\ versions'[i].version_number = versions[i].version_number
        /\ versions'[i].parent_version_id = versions[i].parent_version_id

C5_AppendOnly == [][C5_Step]_vars

\* A restore has just made a new version out of an earlier one, which is still
\* stored next to it.
C5_Witness ==
    /\ resp.op \in {"restore", "restore_uc"}
    /\ resp.status = 200
    /\ \E i \in VersionIds(versions) :
          /\ i # resp.version_id
          /\ versions[i].process_id = versions[resp.version_id].process_id
          /\ versions[i].bpmn_json = versions[resp.version_id].bpmn_json
          /\ versions[i].etag = ComputeEtag(versions[i].bpmn_json)

\* What a restore of version v of process p must leave behind.
RestoredFrom(o, p, v) ==
    LET new == o.vs[Len(o.vs)]
    IN /\ o.resp.status = 200
       /\ OneVersionAdded(versions, o.vs, p)
       /\ new.bpmn_json = versions[v].bpmn_json
       /\ new.parent_version_id = processes[p].current_version_id
       /\ new.generation_method = "restored"
       /\ new.version_number = MaxNumber(versions, p) + 1
       /\ o.ps[p].current_version_id = new.id
       /\ o.resp.version_id = new.id

\* C6: restoring process p to its version V adds exactly one version whose
\* document is V's, whose parent is the process's current version at that
\* time, whose generation method is "restored" and whose number is max + 1,
\* and makes it the process's current version (endpoint and use case; the use
\* case for the processes its repository finds).
C6_Restore ==
    \A p \in ProcessIds(processes) : \A v \in VersionsOf(versions, p) :
        /\ \A o \in restore_version(versions, processes, p, v) :
              RestoredFrom(o, p, v)
        /\ RepoFindProcess(processes, p) # NoId
              => RestoredFrom(RestoreVersionExecute(versions, processes, p, v), p, v)

\* A restore has made a version whose parent is not the version it copies.
C6_Witness ==
    /\ resp.op \in {"restore", "restore_uc"}
    /\ resp.status = 200
    /\ LET new == versions[resp.version_id]
       IN /\ new.parent_version_id # NoId
          /\ versions[new.parent_version_id].bpmn_json # new.bpmn_json
          /\ processes[new.process_id].current_version_id = new.id
          /\ \E i \in VersionsOf(versions, new.process_id) :
                /\ i # new.id
                /\ versions[i].bpmn_json = new.bpmn_json

\* C7: a process that has at least one version has exactly one version with
\* is_active = TRUE, and that version is the one current_version_id names.
C7_OneActiveVersion ==
    \A p \in ProcessIds(processes) :
        VersionsOf(versions, p) # {} =>
            {i \in VersionsOf(versions, p) : versions[i].is_active}
                = {processes[p].current_version_id}

\* What creating a version of process p must do to current_version_id, given
\* the tables the operation left (vs, ps) and the active mark it was asked.
PointerFollowsMark(vs, ps, p, is_active) ==
    LET new == vs[Len(vs)]
    IN /\ OneVersionAdded(versions, vs, p)
       /\ IF VersionsOf(versions, p) = {} \/ is_active
          THEN /\ ps[p].current_version_id = new.id
               /\ new.is_active
          ELSE ps[p].current_version_id = processes[p].current_version_id

\* C8: the first version created for a process, and any version created with
\* the active mark, becomes the process's current version; a later version
\* created without the mark leaves current_version_id as it was (create
\* version, as endpoint and as use case).
C8_ActiveOnCreate ==
    \A p \in ProcessIds(processes), doc \in CreateDocs, is_active \in BOOLEAN :
        /\ \A if_match \in IfMatchChoices, parent \in ParentChoices :
              \A o \in create_version(versions, processes, p, doc, if_match,
                                      parent, is_active) :
                 o.resp.status = 200
                    => PointerFollowsMark(o.vs, o.ps, p, is_active)
        /\ \A parent \in ParentChoices :
              LET out == CreateVersionExecute(versions, processes,
                            [process_id |-> p, bpmn_json |-> doc,
                             generation_method |-> "manual_edit",
                             parent_version_id |-> parent,
                             is_active |-> is_active])
              IN out.ok => PointerFollowsMark(out.vs, out.ps, p, is_active)

\* A version that was not the first of its process was created with the
\* active mark and is the current one, and another one was created later
\* without the mark and is not.
C8_Witness ==
    /\ resp.op = "create_version"
    /\ resp.status = 200
    /\ \E i \in VersionIds(versions) :
          /\ versions[i].process_id = versions[resp.version_id].process_id
          /\ versions[i].generation_method = "manual_edit"
          /\ versions[i].version_number = 2
          /\ versions[i].is_active
          /\ processes[versions[i].process_id].current_version_id = i
          /\ resp.version_id > i
          /\ ~versions[resp.version_id].is_active

\* C9: an edit request that does not complete successfully leaves the
\* persisted state as it was: no process row, no version row, no
\* current_version_id is written.
C9_Step ==
    (/\ resp'.op \in {"edit", "edit_v1"}
     /\ resp'.status # 200
     /\ EditEndpointRequest \/ EditV1Request)
    => UNCHANGED <<versions, processes>>

C9_FailedEditWritesNothing == [][C9_Step]_vars

\* The warnings a changes list must carry for the findings.
WarningEntries(findings) ==
    [i \in 1..Len(findings) |-> "Warning: " \o findings[i]]

Resolvable(d, ref) ==
    \E i \in 1..Len(d.elements) :
        \/ Lower(d.elements[i].id) = Lower(ref)
        \/ Truthy(d.elements[i].name) /\ Lower(d.elements[i].name) = Lower(ref)

\* C11: connect_by_name in which exactly one of the two references resolves
\* fails with the error that names the references, before any mutation: the
\* document that comes back is the document that went in (same elements, same
\* flows, no flow added).
C11_AtomicConnect ==
    \A a \in NameRefs, b \in NameRefs :
        LET raw == [op |-> "connect_by_name",
                    args |-> [sourceName |-> a, targetName |-> b]]
            out == ResolveAndApply(current_bpmn, raw)
        IN (Resolvable(current_bpmn, a) # Resolvable(current_bpmn, b))
           => /\ ~out.ok
              /\ out.err = "Could not find nodes for connection: "
                              \o Lower(a) \o " -> " \o Lower(b)
              /\ out.bpmn = current_bpmn
              /\ out.bpmn.elements = current_bpmn.elements
              /\ out.bpmn.flows = current_bpmn.flows

\* A connect_by_name failed on a document in which "Review" resolves and
\* "ghost" does not, and the document has the elements it had and no flow.
C11_Witness ==
    /\ patch_result.op = "connect_by_name"
    /\ ~patch_result.ok
    /\ patch_result.calls = 1
    /\ current_bpmn = DocReview
    /\ Resolvable(current_bpmn, "Review")
    /\ ~Resolvable(current_bpmn, "ghost")

\* C12: name resolution prefers a name match over an id match: when the
\* lower-cased reference is the name of element A (and of no other element)
\* and the id of a different element B, it resolves to A.
C12_NamePreferredOverId ==
    \A ref \in NameRefs :
        \A i, j \in 1..Len(current_bpmn.elements) :
            LET A == current_bpmn.elements[i]
                B == current_bpmn.elements[j]
                named == {k \in 1..Len(current_bpmn.elements) :
                             /\ Truthy(current_bpmn.elements[k].name)
                             /\ Lower(current_bpmn.elements[k].name) = Lower(ref)}
            IN (/\ named = {i}
                /\ A.id # B.id
                /\ Lower(B.id) = Lower(ref))
               => NameToId(current_bpmn, Lower(ref)) = A.id

\* Every flow of d starts and ends at an element of d, and every lane an
\* element of d names is a lane of d.
RefIntegrity(d) ==
    /\ \A i \in 1..Len(d.flows) :
          d.flows[i].source \in ElementIds(d) /\ d.flows[i].target \in ElementIds(d)
    /\ \A i \in 1..Len(d.elements) :
          d.elements[i].laneId # Null => d.elements[i].laneId \in LaneIds(d)

\* C13: referential integrity is preserved by patch application: a patch
\* (add_node, connect, remove, rename, convert, move_to_lane, set_property)
\* that is applied to a document whose references all resolve yields a document
\* whose references all resolve; a patch that would break it is rejected.
C13_PatchKeepsRefIntegrity ==
    \A patch \in IdPatches(current_bpmn) :
        LET out == ApplyPatch(current_bpmn, patch)
        IN (RefIntegrity(current_bpmn) /\ out.ok) => RefIntegrity(out.bpmn)

\* C14: applying a noop patch with the patch engine is not an error and
\* returns a document equal to the input (same elements, flows and lanes).
C14_NoopIsIdentity ==
    LET out == ApplyPatch(current_bpmn, NoopPatch)
    IN /\ out.ok
       /\ out.bpmn.elements = current_bpmn.elements
       /\ out.bpmn.flows = current_bpmn.flows
       /\ out.bpmn.lanes = current_bpmn.lanes

\* C15: every gateway element (exclusive, parallel, inclusive, event-based)
\* with fewer than two outgoing flows produces exactly one fan-out finding, and
\* a gateway with two or more outgoing flows produces none.
C15_GatewayFanOut ==
    \A i \in 1..Len(current_bpmn.elements) :
        LET n == current_bpmn.elements[i]
            OutOf(e) == e.source = n.id
            outgoing == Len(SelectSeq(current_bpmn.flows, OutOf))
            found == GatewayErrors(current_bpmn, n)
        IN n.type \in {"exclusiveGateway", "parallelGateway",
                       "inclusiveGateway", "eventBasedGateway"}
           => IF outgoing < 2 THEN Len(found) = 1 ELSE found = <<>>

\* The exclusive-gateway half of C15, which the linter does implement.
C15_ExclusiveFanOut ==
    \A i \in 1..Len(current_bpmn.elements) :
        LET n == current_bpmn.elements[i]
            OutOf(e) == e.source = n.id
            outgoing == Len(SelectSeq(current_bpmn.flows, OutOf))
            found == GatewayErrors(current_bpmn, n)
        IN n.type = "exclusiveGateway"
           => IF outgoing < 2
              THEN found = << "Exclusive Gateway '" \o Label(n)
                                 \o "' must have at least 2 outgoing paths" >>
              ELSE found = <<>>

\* The first step of the scenario: add_node{type: task, name: Review} applied
\* to the document whose only element is the start event s.
ScenarioAdded == ApplyPatch(DocScenario, [op |-> "add_node",
                                          args |-> [type |-> "task", name |-> "Review"]])

\* The second step: connect from s to the task the first step added.
ScenarioConnected ==
    ApplyPatch(ScenarioAdded.bpmn,
               [op |-> "connect",
                args |-> [sourceId |-> "s",
                          targetId |-> ScenarioAdded.bpmn.elements[2].id]])

\* The first half of the scenario of C16, which holds as the claim states it.
C16_AfterAddNode ==
    current_bpmn = ScenarioAdded.bpmn
    => /\ Len(current_bpmn.elements) = 2
       /\ Len(current_bpmn.flows) = 0
       /\ Lint(current_bpmn)
             = << "Process must have at least one End Event",
                  "Start Event 's' is not connected to anything",
                  "Node 'Review' is unreachable (no incoming flows)",
                  "Node 'Review' is a dead end (no outgoing flows)" >>

C19_RoundTrip ==
    LET x == ToBpmnXml(current_bpmn)
        back == ToBpmnJson(x.xml)
        Nodes(d) == {<<d.elements[i].id, d.elements[i].type>> : i \in 1..Len(d.elements)}
        Edges(d) == {<<d.flows[i].id, d.flows[i].source, d.flows[i].target>> :
                        i \in 1..Len(d.flows)}
    IN /\ x.ok
       /\ Nodes(back) = Nodes(current_bpmn)
       /\ Edges(back) = Edges(current_bpmn)

C18_LlmErrorTaxonomy ==
    \A src \in EditSources, command \in Commands, if_match \in EditIfMatch,
       failure \in LlmFailures :
        LET got == AcquireDocument(versions, src[1], src[2], src[3])
            o == edit_bpmn_llm(versions, processes, src[1], src[2], src[3],
                               command, if_match, failure)
            expected == CASE failure = "AuthenticationError" -> 401
                          [] failure = "RateLimitError" -> 429
                          [] failure = "APITimeoutError" -> 503
                          [] failure = "OpenAIError" -> 502
        IN (~IsBlank(command) /\ got.status = 200)
           => /\ o.resp.status = expected
              /\ o.vs = versions

\* The half of C18 that holds: a failed provider call creates no version and
\* no process.
C18_LlmFailureWritesNothing ==
    \A src \in EditSources, command \in Commands, if_match \in EditIfMatch,
       failure \in LlmFailures :
        LET o == edit_bpmn_llm(versions, processes, src[1], src[2], src[3],
                               command, if_match, failure)
        IN o.resp.status >= 400 /\ o.vs = versions /\ o.ps = processes

\* Generation persisted a process and its first version, which is active.
GeneratedAndActive(vs, ps, o, d) ==
    /\ Len(o.ps) = Len(ps) + 1
    /\ Len(o.vs) = Len(vs) + 1
    /\ SubSeq(o.vs, 1, Len(vs)) = vs
    /\ SubSeq(o.ps, 1, Len(ps)) = ps
    /\ o.vs[Len(o.vs)].process_id = Len(o.ps)
    /\ o.vs[Len(o.vs)].version_number = 1
    /\ o.vs[Len(o.vs)].is_active
    /\ o.vs[Len(o.vs)].bpmn_json = d
    /\ o.ps[Len(o.ps)].current_version_id = Len(o.vs)

ConnectPatch(a, b) == [op |-> "connect", args |-> [sourceId |-> a, targetId |-> b]]

\* new is old with exactly one flow appended, from a to b, and nothing else changed.
OneFlowAppended(old, new, a, b) ==
    /\ Len(new.flows) = Len(old.flows) + 1
    /\ SubSeq(new.flows, 1, Len(old.flows)) = old.flows
    /\ new.flows[Len(new.flows)].source = a
    /\ new.flows[Len(new.flows)].target = b
    /\ new.elements = old.elements
    /\ new.lanes = old.lanes
    /\ new.process = old.process

\* C21: a connect whose sourceId or targetId is not the id of an element of the
\* document fails and leaves the document unchanged; a connect between two
\* existing elements appends exactly one flow from the source to the target
\* and changes nothing else.
C21_ConnectRequiresBothIds ==
    \A a \in IdRefs(current_bpmn), b \in IdRefs(current_bpmn) :
        LET out == ApplyPatch(current_bpmn, ConnectPatch(a, b))
        IN IF a \in ElementIds(current_bpmn) /\ b \in ElementIds(current_bpmn)
           THEN out.ok /\ OneFlowAppended(current_bpmn, out.bpmn, a, b)
           ELSE ~out.ok /\ out.bpmn = current_bpmn

\* The half of C21 the code keeps: a connect between two existing elements
\* appends exactly one flow and changes nothing else.
C21_ConnectAppendsOneFlow ==
    \A a \in ElementIds(current_bpmn), b \in ElementIds(current_bpmn) :
        LET out == ApplyPatch(current_bpmn, ConnectPatch(a, b))
        IN out.ok /\ OneFlowAppended(current_bpmn, out.bpmn, a, b)

\* The remove patch for id a.
RemovePatch(a) == [op |-> "remove", args |-> [id |-> a]]

\* C22: remove of an element's id removes that element and every flow whose
\* source or target is that id, and leaves every other element and flow (and
\* their order) as it was; remove of a flow's id removes only that flow and no
\* element.
C22_RemoveCascades ==
    \A a \in ElementIds(current_bpmn) \cup FlowIds(current_bpmn) :
        LET out == ApplyPatch(current_bpmn, RemovePatch(a))
            OtherElement(n) == n.id # a
            NotIncident(e) == e.source # a /\ e.target # a
            OtherFlow(e) == e.id # a
        IN /\ out.ok
           /\ a \in ElementIds(current_bpmn) =>
                 /\ out.bpmn.elements = SelectSeq(current_bpmn.elements, OtherElement)
                 /\ out.bpmn.flows = SelectSeq(current_bpmn.flows, NotIncident)
           /\ a \in FlowIds(current_bpmn) =>
                 /\ out.bpmn.elements = current_bpmn.elements
                 /\ out.bpmn.flows = SelectSeq(current_bpmn.flows, OtherFlow)

\* A remove was the only call made on the schema's example document: the
\* element Task_1 went, and with it Flow_1, which ended in it.
C22_Witness ==
    /\ patch_result = [op |-> "remove", ok |-> TRUE, calls |-> 1]
    /\ current_bpmn.elements = << DocExample.elements[1] >>
    /\ current_bpmn.flows = <<>>

\* The rename patch for id a.
RenamePatch(a) == [op |-> "rename", args |-> [id |-> a, name |-> "Renamed"]]

\* new is old but for the name of the first element with id a, or, when no
\* element has that id, of the first flow with it.
OnlyNameSet(old, new, a) ==
    LET ni == IndexOfId(old.elements, a)
        ei == IndexOfId(old.flows, a)
    IN IF ni # 0
       THEN new = [old EXCEPT !.elements[ni].name = "Renamed"]
       ELSE new = [old EXCEPT !.flows[ei].name = "Renamed"]

\* C23: rename sets the name of the element or flow with that id and changes
\* nothing else; when no element and no flow has that id it fails with a
\* not-found error and the document is unchanged.
C23_RenameOrNotFound ==
    \A a \in IdRefs(current_bpmn) \cup FlowIds(current_bpmn) :
        LET out == ApplyPatch(current_bpmn, RenamePatch(a))
        IN IF a \in ElementIds(current_bpmn) \cup FlowIds(current_bpmn)
           THEN out.ok /\ OnlyNameSet(current_bpmn, out.bpmn, a)
           ELSE ~out.ok /\ out.bpmn = current_bpmn

\* The half of C23 the code keeps: a rename of an existing element or flow
\* sets that name and nothing else, and a rename of an absent id changes
\* nothing.
C23_RenameSetsOnlyName ==
    \A a \in IdRefs(current_bpmn) \cup FlowIds(current_bpmn) :
        LET out == ApplyPatch(current_bpmn, RenamePatch(a))
        IN IF a \in ElementIds(current_bpmn) \cup FlowIds(current_bpmn)
           THEN out.ok /\ OnlyNameSet(current_bpmn, out.bpmn, a)
           ELSE out.bpmn = current_bpmn

\* The convert patch the interpreter's "convert ... to gateway" rule ends in.
ConvertPatch(a) == [op |-> "convert", args |-> [id |-> a, type |-> "bpmn:ExclusiveGateway"]]

GeneratedIds(t) == {t \o "_" \o HexOf(n) : n \in 1..8}

\* C25: add_node appends exactly one element, with the id the caller supplied
\* or else a generated one, and creates no flow: the elements that were there
\* are unchanged and in place, the element count grows by one, and flows,
\* lanes and process are as they were. An add_node the schema rejects adds
\* nothing.
C25_AddNodeAppendsOneElement ==
    \A patch \in AddNodePatches :
        LET out == ApplyPatch(current_bpmn, patch)
            old == current_bpmn.elements
            new == out.bpmn.elements
        IN /\ StripBpmn(patch.args.type) \in ElementTypes => out.ok
           /\ ~out.ok => out.bpmn = current_bpmn
           /\ out.ok =>
                 /\ Len(new) = Len(old) + 1
                 /\ SubSeq(new, 1, Len(old)) = old
                 /\ new[Len(new)].name = patch.args.name
                 /\ IF "id" \in DOMAIN patch.args
                    THEN new[Len(new)].id = patch.args.id
                    ELSE /\ new[Len(new)].id \in GeneratedIds(patch.args.type)
                         /\ new[Len(new)].id \notin ElementIds(current_bpmn)
                 /\ out.bpmn.flows = current_bpmn.flows
                 /\ out.bpmn.lanes = current_bpmn.lanes
                 /\ out.bpmn.process = current_bpmn.process

\* An add_node without an id was the only call made on the schema's example
\* document: a third element with a generated id follows the two that were
\* there, and Flow_1 is still the only flow.
C25_Witness ==
    /\ patch_result = [op |-> "add_node", ok |-> TRUE, calls |-> 1]
    /\ Len(current_bpmn.elements) = 3
    /\ SubSeq(current_bpmn.elements, 1, 2) = DocExample.elements
    /\ current_bpmn.elements[3].id = "task_00000001"
    /\ current_bpmn.flows = DocExample.flows

\* How many entries of the list of findings are the message msg.
Occurrences(findings, msg) ==
    Cardinality({k \in 1..Len(findings) : findings[k] = msg})

\* How many elements of d carry the label l and satisfy Offends.
Offenders(d, l, Offends(_)) ==
    Cardinality({j \in 1..Len(d.elements) :
                    Label(d.elements[j]) = l /\ Offends(d.elements[j])})

\* C26: connectivity is reported per offending element. Each start event
\* without an outgoing flow, and no other, yields one "not connected" finding;
\* each end event without an incoming flow, and no other, one "unreachable"
\* finding; each other element one finding when it has no incoming flow and a
\* separate one when it has no outgoing flow. A document without a start event
\* (an end event) yields the missing-start (missing-end) finding, and a
\* document with one does not.
C26_ConnectivityPerElement ==
    LET d == current_bpmn
        findings == Lint(d)
        NoIncoming(n) == \A k \in 1..Len(d.flows) : d.flows[k].target # n.id
        NoOutgoing(n) == \A k \in 1..Len(d.flows) : d.flows[k].source # n.id
        StartAlone(n) == n.type = "startEvent" /\ NoOutgoing(n)
        EndAlone(n) == n.type = "endEvent" /\ NoIncoming(n)
        Unreachable(n) == n.type \notin {"startEvent", "endEvent"} /\ NoIncoming(n)
        DeadEnd(n) == n.type \notin {"startEvent", "endEvent"} /\ NoOutgoing(n)
        HasType(t) == \E j \in 1..Len(d.elements) : d.elements[j].type = t
    IN /\ \A i \in 1..Len(d.elements) :
             LET l == Label(d.elements[i])
             IN /\ Occurrences(findings,
                        "Start Event '" \o l \o "' is not connected to anything")
                       = Offenders(d, l, StartAlone)
                /\ Occurrences(findings, "End Event '" \o l \o "' is unreachable")
                       = Offenders(d, l, EndAlone)
                /\ Occurrences(findings,
                        "Node '" \o l \o "' is unreachable (no incoming flows)")
                       = Offenders(d, l, Unreachable)
                /\ Occurrences(findings,
                        "Node '" \o l \o "' is a dead end (no outgoing flows)")
                       = Offenders(d, l, DeadEnd)
       /\ Occurrences(findings, "Process must have at least one Start Event")
              = IF HasType("startEvent") THEN 0 ELSE 1
       /\ Occurrences(findings, "Process must have at least one End Event")
              = IF HasType("endEvent") THEN 0 ELSE 1

\* The schema's example document after an end event was added to it: the start
\* event has its flow and is not reported, the task is a dead end, and the end
\* event is unreachable.
C26_Witness ==
    /\ patch_result = [op |-> "add_node", ok |-> TRUE, calls |-> 1]
    /\ Len(current_bpmn.elements) = 3
    /\ current_bpmn.elements[3].type = "endEvent"
    /\ Lint(current_bpmn) =
           << "Node 'Review Request' is a dead end (no outgoing flows)",
              "End Event 'End' is unreachable" >>

C27_EtagByMethod ==
    \A i \in VersionIds(versions) :
        versions[i].etag = IF versions[i].generation_method = "edited"
                           THEN NoEtag
                           ELSE ComputeEtag(versions[i].bpmn_json)

\* current_version_id of process p is NULL or the id of one of p's versions.
PointerIsOwn(vs, ps, p) ==
    \/ ps[p].current_version_id = NoId
    \/ /\ ps[p].current_version_id \in VersionIds(vs)
       /\ vs[ps[p].current_version_id].process_id = p

\* C28: after any sequence of create-version, edit, activate and restore
\* operations each process's current_version_id is NULL or the id of an
\* existing version of that same process; activating a version id that does
\* not exist or belongs to another process fails with not-found and leaves
\* every current_version_id as it was.
C28_CurrentVersionIsOwn ==
    /\ \A p \in ProcessIds(processes) : PointerIsOwn(versions, processes, p)
    /\ \A p \in ProcessIds(processes), v \in VersionRefs :
           (v \notin VersionIds(versions) \/ versions[v].process_id # p) =>
               /\ activate_version(versions, processes, p, v).resp.status = 404
               /\ activate_version(versions, processes, p, v).ps = processes
               /\ ActivateVersionExecute(versions, processes, p, v).resp.status = 404
               /\ ActivateVersionExecute(versions, processes, p, v).ps = processes

\* Two processes have versions, the first has an active one, and an
\* activation has just been refused.
C28_Witness ==
    /\ resp.op = "activate"
    /\ resp.status = 404
    /\ Len(processes) = 2
    /\ processes[1].current_version_id # NoId
    /\ \E v \in VersionIds(versions) : versions[v].process_id = 2
    /\ \E v \in VersionIds(versions) : versions[v].process_id = 1

\* Request w has stored its version after its If-Match test passed on a
\* header that names the etag of the row it read as latest, with a document of
\* another fingerprint.
WroteOnMatch(w) ==
    /\ pc[w] = "cv_inserted"
    /\ loc[w].last.id # NoId
    /\ loc[w].if_match # NoEtag
    /\ loc[w].if_match = loc[w].last.etag
    /\ ComputeEtag(loc[w].doc) # loc[w].if_match

\* C29: when two create-version requests for the same process both carry the
\* etag E of the same latest version as If-Match, each with a document whose
\* fingerprint is not E, then under any interleaving of their reads and writes
\* at most one of them creates a version: never have both stored a version on
\* the strength of the same latest row.
C29_AtMostOneWriterPerEtag ==
    ~ \E w \in Workers, x \in Workers :
          /\ w # x
          /\ WroteOnMatch(w)
          /\ WroteOnMatch(x)
          /\ loc[w].last = loc[x].last

\* No two elements of d have the same id.
UniqueElementIds(d) ==
    \A i \in 1..Len(d.elements), j \in 1..Len(d.elements) :
        d.elements[i].id = d.elements[j].id => i = j

\* C30: element ids stay unique within a document under any sequence of
\* patch operations applied to a document with unique ids; an add_node whose
\* caller-supplied id is that of an existing element does not leave two
\* elements with the same id.
C30_ElementIdsStayUnique ==
    /\ UniqueElementIds(current_bpmn)
    /\ \A patch \in AddNodePatches :
           UniqueElementIds(ApplyPatch(current_bpmn, patch).bpmn)

\* What the code keeps of C30: every operation but an add_node with a
\* caller-supplied id leaves a document with unique element ids that way.
C30_OtherOperationsKeepUnique ==
    \A patch \in IdPatches(current_bpmn) :
        (UniqueElementIds(current_bpmn)
            /\ ~(patch.op = "add_node" /\ "id" \in DOMAIN patch.args))
        => UniqueElementIds(ApplyPatch(current_bpmn, patch).bpmn)
====
